---- MODULE Spec2Model ----
(***************************************************************************)
(* GATK germline pipeline (toil_scripts/gatk_germline/germline.py) as a    *)
(* state machine: the job functions of the pipeline build a job graph      *)
(* through addChildJobFn / addFollowOnJobFn, the engine dispatches the     *)
(* jobs, and every job stages files between the file store and its own     *)
(* working directory.                                                      *)
(*                                                                         *)
(* Strings are sequences of atoms (an atom is a chunk of characters), so   *)
(* that formatting, prefix tests, strip and split are computed.            *)
(***************************************************************************)
EXTENDS Integers, Sequences, FiniteSets, TLC

\* ------------------------------------------------------------------ bounds

\* Largest number of data lines of a manifest of the pipeline runs.
MaxSamples == 2

\* Staging harness: number of staging calls on one work dir, and the largest
\* number of file names of one call.
MaxCalls == 2
MaxNames == 2

\* Manifest parsing: the largest number of lines of a manifest.
MaxLines == 4

\* Size of the engine's pool of workers: the nodes that run at the same time.
MaxWorkers == 2

\* multiprocessing.cpu_count() of the machine.
CpuCount == 2

\* ----------------------------------------------------------------- strings

NoneStr == <<"<None>">>
Unset == <<"<unset>">>

StartsWith(s, p) == Len(s) >= Len(p) /\ SubSeq(s, 1, Len(p)) = p

\* t occurs in s as a contiguous run of atoms
Embeds(s, t) == \E i \in 0..(Len(s) - Len(t)) : SubSeq(s, i + 1, i + Len(t)) = t

S3Prefix == <<"s3:", "//">>
S3Scheme == <<"s3:">>

\* os.path.join(a, b) for a relative b
PathJoin(a, b) == a \o <<"/">> \o b

\* ------------------------------------------------------------- file names

REF_FA == <<"ref.fa">>
REF_FAI == <<"ref.fa.fai">>
REF_DICT == <<"ref.dict">>
PHASE_VCF == <<"phase.vcf">>
OMNI_VCF == <<"omni.vcf">>
DBSNP_VCF == <<"dbsnp.vcf">>
HAPMAP_VCF == <<"hapmap.vcf">>
MILLS_VCF == <<"mills.vcf">>
TOIL_BAM == <<"toil.bam">>
TOIL_BAI == <<"toil.bam.bai">>
UNIFIED_VCF == <<"unified.raw.BOTH.gatk.vcf">>
HAPSNP_RECAL == <<"HAPSNP.recal">>
HAPSNP_TRANCHES == <<"HAPSNP.tranches">>
HAPSNP_PLOTS == <<"HAPSNP.plots">>
HAPINDEL_RECAL == <<"HAPINDEL.recal">>
HAPINDEL_TRANCHES == <<"HAPINDEL.tranches">>
HAPINDEL_PLOTS == <<"HAPINDEL.plots">>

\* batch_start: shared_file_names, in order
shared_file_names == <<PHASE_VCF, OMNI_VCF, DBSNP_VCF, HAPMAP_VCF, MILLS_VCF>>

\* '%s.raw.BOTH%s.gvcf' % (uuid, suffix)
GvcfName(uuid, suffix) == uuid \o <<".raw.BOTH">> \o suffix \o <<".gvcf">>

\* '{}.HAPSNP.vqsr.SNP{}.vcf'.format(uuid, suffix)
SnpVcfName(uuid, suffix) == uuid \o <<".HAPSNP.vqsr.SNP">> \o suffix \o <<".vcf">>

\* the name apply_vqsr_indel would use if it reused the SNP template
IndelVcfNameAsSnp(uuid, suffix) == SnpVcfName(uuid, suffix)

\* '{}.HAPSNP.vqsr.INDEL{}.vcf'.format(uuid, suffix)
IndelVcfName(uuid, suffix) == uuid \o <<".HAPSNP.vqsr.INDEL">> \o suffix \o <<".vcf">>

\* ------------------------------------------------------------------ nodes

Samples == 1..MaxSamples

Node(fn, s, f) == <<fn, s, f>>
NoNode == Node("none", 0, <<>>)
Root == Node("batch_start", 0, <<>>)

RefDownloads == {Node("download_url", 0, f) :
                   f \in {REF_FA, PHASE_VCF, OMNI_VCF, DBSNP_VCF, HAPMAP_VCF, MILLS_VCF}}

SharedFns == {"create_reference_index_hc", "create_reference_dict_hc",
              "spawn_batch_variant_calling"}

SampleFns == {"start", "index", "haplotype_caller", "genotype_gvcf", "vqsr_snp",
              "apply_vqsr_snp", "vqsr_indel", "apply_vqsr_indel"}

Nodes == {Root} \cup RefDownloads
         \cup {Node(fn, 0, <<>>) : fn \in SharedFns}
         \cup {Node(fn, s, <<>>) : fn \in SampleFns, s \in Samples}
         \cup {Node("download_url", s, f) : s \in Samples, f \in {TOIL_BAM, TOIL_BAI}}

FnOf(n) == n[1]
SampleOf(n) == n[2]

\* ------------------------------------------------- values held in id maps

\* a file store ID: one per writeGlobalFile call (a job runs once and writes
\* a file name at most once, so the writer and the name identify the call)
Handle(n, f) == [promise |-> FALSE, by |-> n, name |-> f]
\* job.rv() of a job that has not run yet
Promise(n) == [promise |-> TRUE, by |-> n, name |-> <<>>]
NoneVal == [promise |-> FALSE, by |-> NoNode, name |-> <<>>]

EmptyMap == [x \in {} |-> NoneVal]
Put(m, k, v) == [x \in DOMAIN m \cup {k} |-> IF x = k THEN v ELSE m[x]]

\* file contents
UrlContent(url) == [origin |-> "url", src |-> url, by |-> NoNode]
ToolContent(n, f) == [origin |-> "tool", src |-> f, by |-> n]

\* ------------------------------------------------------------------ state

VARIABLES
    status,       \* node -> "absent" | "created" | "running" | "succeeded" | "failed"
    edge,         \* node -> [parent, kind]: the edge that registered the node
    cores,        \* node -> core-count hint it was registered with (0: none)
    ids,          \* node -> the shared_ids / ids dictionary argument of the job
    inputArgs,    \* node -> the input_args namespace of the job (its own copy)
    callArgs,     \* node -> the remaining positional arguments of the job
    rv,           \* node -> return value of the job function
    store,        \* the file store: file store ID -> contents
    workDir,      \* node -> its local temp dir: file name -> contents
    sinkCalls,    \* the upload_or_move_hc calls made so far
    toolFailed,   \* nodes whose download or docker_call failed
    lateDone,     \* history: nodes that returned after the run was aborted
    manifestFile, \* the lines of the manifest file
    mainState,    \* __main__: [config_exists, manifest_exists, inline, exit]
    hState        \* staging harness: a work dir and an id map that are staged into
                  \* repeatedly, with the history of the calls; output sink
                  \* harness: a work dir, an output directory and the output
                  \* file system, with the last call

vars == <<status, edge, cores, ids, inputArgs, callArgs, rv, store, workDir,
          sinkCalls, toolFailed, lateDone, manifestFile, mainState, hState>>

pipelineVars == <<status, edge, cores, ids, inputArgs, callArgs, rv, store, workDir,
                  sinkCalls, toolFailed, lateDone, manifestFile, mainState>>

NoCall == [url |-> Unset, filename |-> <<>>, sample |-> <<>>,
           output_dir |-> Unset, suffix |-> Unset]
NoEdge == [parent |-> NoNode, kind |-> "none"]

\* ---------------------------------------------------------------- staging

\* job.fileStore.readGlobalFile(id, path): fails on an ID the store does not hold
CanRead(st, h) == h \in DOMAIN st

\* one iteration of the loop of read_from_filestore_hc / return_input_paths
HydrateOneRefetch(acc, st, idm, f) ==
    IF acc.err THEN acc
    ELSE IF f \notin DOMAIN idm \/ ~CanRead(st, idm[f]) THEN [acc EXCEPT !.err = TRUE]
    ELSE [acc EXCEPT !.wd = Put(acc.wd, f, st[idm[f]]), !.fetched = Append(@, f)]

HydrateOne(acc, st, idm, f) ==
    IF acc.err THEN acc
    ELSE IF f \in DOMAIN acc.wd THEN acc
    ELSE IF f \notin DOMAIN idm \/ ~CanRead(st, idm[f]) THEN [acc EXCEPT !.err = TRUE]
    ELSE [acc EXCEPT !.wd = Put(acc.wd, f, st[idm[f]]), !.fetched = Append(@, f)]

\* the loop "for filename in filenames" from its i-th iteration on (a is the
\* value of the accumulator, evaluated once per iteration)
RECURSIVE HydrateFrom(_, _, _, _, _)
HydrateFrom(acc, st, idm, filenames, i) ==
    CHOOSE r \in {IF i > Len(filenames) THEN a
                  ELSE HydrateFrom(HydrateOne(a, st, idm, filenames[i]),
                                   st, idm, filenames, i + 1) : a \in {acc}} : TRUE

\* read_from_filestore_hc(job, work_dir, ids, *filenames):
\* [wd: the directory afterwards, err: an exception was raised, fetched: the
\*  names read from the store, in order]
read_from_filestore_hc(st, wd, idm, filenames) ==
    HydrateFrom([wd |-> wd, err |-> FALSE, fetched |-> <<>>], st, idm, filenames, 1)

\* return_input_paths(job, work_dir, ids, *filenames): the same staging; the
\* returned paths are the file names in work_dir
return_input_paths(st, wd, idm, filenames) ==
    read_from_filestore_hc(st, wd, idm, filenames)

RECURSIVE PersistFrom(_, _, _, _)
PersistFrom(n, idm, filenames, i) ==
    CHOOSE r \in {IF i > Len(filenames) THEN m
                  ELSE PersistFrom(n, Put(m, filenames[i], Handle(n, filenames[i])),
                                   filenames, i + 1) : m \in {idm}} : TRUE

\* write_to_filestore(job, work_dir, ids, *filenames): the ids afterwards
write_to_filestore(n, idm, filenames) == PersistFrom(n, idm, filenames, 1)

\* writeGlobalFile called with the path of one file for every name
StorePutsOnePath(n, wd, names) ==
    [h \in {Handle(n, f) : f \in names} |-> wd[CHOOSE f \in names : TRUE]]

\* the store entries written by node n for these names of its work dir
StorePuts(n, wd, names) == [h \in {Handle(n, f) : f \in names} |-> wd[h.name]]

\* the docker outputs appear in the work dir
WithOutputs(n, wd, names) ==
    [f \in DOMAIN wd \cup names |-> IF f \in names THEN ToolContent(n, f) ELSE wd[f]]

Range(s) == {s[i] : i \in DOMAIN s}

\* the output file system: the directories, the files and the S3 uploads
EmptyFs == [dirs |-> {}, files |-> EmptyMap, uploads |-> {}]

\* make_directory(path): [fs, err]
make_directory(fs, path) ==
    IF path \in DOMAIN fs.files
    THEN [fs |-> fs, err |-> TRUE]       \* EEXIST and not a directory: raise
    ELSE [fs |-> [fs EXCEPT !.dirs = @ \cup {path}], err |-> FALSE]

\* move_to_output_dir(work_dir, output_dir, *filenames), from the i-th name
\* on: [fs, wd]
RECURSIVE MoveFrom(_, _, _, _, _)
MoveFrom(fs, wd, output_dir, filenames, i) ==
    IF i > Len(filenames) THEN [fs |-> fs, wd |-> wd]
    ELSE LET filename == filenames[i]
             dest == PathJoin(output_dir, filename)
         IN  MoveFrom([fs EXCEPT !.files = Put(@, dest, wd[filename])],
                      [f \in DOMAIN wd \ {filename} |-> wd[f]],
                      output_dir, filenames, i + 1)

move_to_output_dir(fs, wd, output_dir, filenames) == MoveFrom(fs, wd, output_dir, filenames, 1)

\* what an upload_or_move_hc call does to the output file system and to the
\* work dir: [fs, wd, err]
SinkEffect(fs, wd, call) ==
    IF call.mode = "upload"
    THEN [fs |-> [fs EXCEPT !.uploads = @ \cup {[dir |-> call.dest, name |-> call.name,
                                                 content |-> wd[call.name]]}],
          wd |-> wd, err |-> FALSE]
    ELSE LET d == make_directory(fs, call.dest)
             m == move_to_output_dir(d.fs, wd, call.dest, <<call.name>>)
         IN  IF d.err THEN [fs |-> fs, wd |-> wd, err |-> TRUE]
             ELSE [fs |-> m.fs, wd |-> m.wd, err |-> FALSE]

\* upload_or_move_hc testing for the scheme 's3:' as download_url does
upload_or_move_hc_s3_scheme(n, wd, output_dir, output) ==
    IF StartsWith(output_dir, S3Scheme)
    THEN [wd |-> wd,
          call |-> [node |-> n, mode |-> "upload", dest |-> output_dir,
                    name |-> output, content |-> wd[output]]]
    ELSE [wd |-> [f \in DOMAIN wd \ {output} |-> wd[f]],
          call |-> [node |-> n, mode |-> "move", dest |-> output_dir,
                    name |-> output, content |-> wd[output]]]

\* upload_or_move_hc(work_dir, output_dir, output): [wd, call]
upload_or_move_hc(n, wd, output_dir, output) ==
    IF StartsWith(output_dir, S3Prefix)
    THEN [wd |-> wd,
          call |-> [node |-> n, mode |-> "upload", dest |-> output_dir,
                    name |-> output, content |-> wd[output]]]
    ELSE [wd |-> [f \in DOMAIN wd \ {output} |-> wd[f]],
          call |-> [node |-> n, mode |-> "move", dest |-> output_dir,
                    name |-> output, content |-> wd[output]]]

\* ---------------------------------------------------------- job functions
\* Each job function is an operator of the node n that runs it and of the
\* outcome ok of its external call (download or docker_call).  It reads the
\* node's arguments and returns what the run does:
\*   raised: an exception left the function;  toolFailed: the external call failed;
\*   wd: the work dir afterwards;  puts: the file store entries written;
\*   rv: the return value;  ia: the node's input_args afterwards;
\*   succ: the jobs registered by addChildJobFn / addFollowOnJobFn;
\*   sinks: the upload_or_move_hc calls.

Reg(n, parent, kind, idm, ia, call, c) ==
    [node |-> n, parent |-> parent, kind |-> kind, ids |-> idm, ia |-> ia,
     call |-> call, cores |-> c]

Raise(n, tf) ==
    [raised |-> TRUE, toolFailed |-> tf, wd |-> workDir[n], puts |-> EmptyMap,
     rv |-> NoneVal, ia |-> inputArgs[n], succ |-> {}, sinks |-> {}]

Return(n, wd, puts, ret, ia, succ, sinks) ==
    [raised |-> FALSE, toolFailed |-> FALSE, wd |-> wd, puts |-> puts,
     rv |-> ret, ia |-> ia, succ |-> succ, sinks |-> sinks]

\* download_url(job, url, filename)
download_url(n, ok) ==
    LET url == callArgs[n].url
        filename == callArgs[n].filename
        wd == workDir[n]
    IN  IF filename \notin DOMAIN wd /\ ~ok
        THEN Raise(n, TRUE)
        ELSE LET wd2 == IF filename \in DOMAIN wd THEN wd
                        ELSE Put(wd, filename, UrlContent(url))
             IN  Return(n, wd2, StorePuts(n, wd2, {filename}), Handle(n, filename),
                        inputArgs[n], {}, {})

DownloadCall(url, filename) == [NoCall EXCEPT !.url = url, !.filename = filename]

\* batch_start: the edge that registers create_reference_index_hc
batch_start_next_as_child == "child"

batch_start_next == "followOn"

\* batch_start that also overwrites input_args.manifest with its sample argument
batch_start_sets_manifest(n, ok) ==
    LET ia == [inputArgs[n] EXCEPT !.sample = callArgs[n].sample,
                                   !.manifest = callArgs[n].sample,
                                   !.output_dir = callArgs[n].output_dir,
                                   !.suffix = callArgs[n].suffix]
        shared_files == <<ia.phase, ia.omni, ia.dbsnp, ia.hapmap, ia.mills>>
        names == <<REF_FA>> \o shared_file_names
        urls == <<ia.ref>> \o shared_files
        shared_ids == [f \in Range(names) |-> Promise(Node("download_url", 0, f))]
        downloads == {Reg(Node("download_url", 0, names[i]), n, "child", EmptyMap,
                          ia, DownloadCall(urls[i], names[i]), 0) : i \in DOMAIN names}
    IN  Return(n, workDir[n], EmptyMap, NoneVal, ia,
               downloads \cup {Reg(Node("create_reference_index_hc", 0, <<>>), n,
                                   batch_start_next, shared_ids, ia, NoCall, 0)},
               {})

\* batch_start(job, input_args, sample, output_dir, suffix)
batch_start(n, ok) ==
    LET ia == [inputArgs[n] EXCEPT !.sample = callArgs[n].sample,
                                   !.output_dir = callArgs[n].output_dir,
                                   !.suffix = callArgs[n].suffix]
        shared_files == <<ia.phase, ia.omni, ia.dbsnp, ia.hapmap, ia.mills>>
        names == <<REF_FA>> \o shared_file_names
        urls == <<ia.ref>> \o shared_files
        shared_ids == [f \in Range(names) |-> Promise(Node("download_url", 0, f))]
        downloads == {Reg(Node("download_url", 0, names[i]), n, "child", EmptyMap,
                          ia, DownloadCall(urls[i], names[i]), 0) : i \in DOMAIN names}
    IN  Return(n, workDir[n], EmptyMap, NoneVal, ia,
               downloads \cup {Reg(Node("create_reference_index_hc", 0, <<>>), n,
                                   batch_start_next, shared_ids, ia, NoCall, 0)},
               {})

\* create_reference_index_hc(job, shared_ids, input_args)
create_reference_index_hc(n, ok) ==
    LET h == return_input_paths(store, workDir[n], ids[n], <<REF_FA>>)
        wd == WithOutputs(n, h.wd, {REF_FAI})
        shared_ids == Put(ids[n], REF_FAI, Handle(n, REF_FAI))
    IN  IF h.err THEN Raise(n, FALSE)
        ELSE IF ~ok THEN Raise(n, TRUE)
        ELSE Return(n, wd, StorePuts(n, wd, {REF_FAI}), NoneVal, inputArgs[n],
                    {Reg(Node("create_reference_dict_hc", 0, <<>>), n, "child",
                         shared_ids, inputArgs[n], NoCall, 0)},
                    {})

\* create_reference_dict_hc handing on the map it was given, without 'ref.dict'
create_reference_dict_hc_unbound(n, ok) ==
    LET h == return_input_paths(store, workDir[n], ids[n], <<REF_FA>>)
        wd == WithOutputs(n, h.wd, {REF_DICT})
    IN  IF h.err THEN Raise(n, FALSE)
        ELSE IF ~ok THEN Raise(n, TRUE)
        ELSE Return(n, wd, StorePuts(n, wd, {REF_DICT}), NoneVal, inputArgs[n],
                    {Reg(Node("spawn_batch_variant_calling", 0, <<>>), n, "child",
                         ids[n], inputArgs[n], NoCall, 0)},
                    {})

\* create_reference_dict_hc(job, shared_ids, input_args)
create_reference_dict_hc(n, ok) ==
    LET h == return_input_paths(store, workDir[n], ids[n], <<REF_FA>>)
        wd == WithOutputs(n, h.wd, {REF_DICT})
        shared_ids == Put(ids[n], REF_DICT, Handle(n, REF_DICT))
    IN  IF h.err THEN Raise(n, FALSE)
        ELSE IF ~ok THEN Raise(n, TRUE)
        ELSE Return(n, wd, StorePuts(n, wd, {REF_DICT}), NoneVal, inputArgs[n],
                    {Reg(Node("spawn_batch_variant_calling", 0, <<>>), n, "child",
                         shared_ids, inputArgs[n], NoCall, 0)},
                    {})

\* ------------------------------------------------------- manifest parsing

IsSpaceAtom(a) == a \in {" ", "\t", "\n"}

\* str.isspace(): at least one character and all of them white space
IsSpace(line) == Len(line) > 0 /\ \A i \in DOMAIN line : IsSpaceAtom(line[i])

\* str.strip()
RECURSIVE LStrip(_)
LStrip(s) == IF Len(s) > 0 /\ IsSpaceAtom(s[1]) THEN LStrip(Tail(s)) ELSE s
RECURSIVE RStrip(_)
RStrip(s) == IF Len(s) > 0 /\ IsSpaceAtom(s[Len(s)])
             THEN RStrip(SubSeq(s, 1, Len(s) - 1)) ELSE s
\* strip that leaves the end of the line alone
StripLeading(s) == LStrip(s)

Strip(s) == RStrip(LStrip(s))

\* str.split(sep): the fields between the separators (always at least one)
RECURSIVE SplitFrom(_, _, _, _)
SplitFrom(s, sep, i, cur) ==
    IF i > Len(s) THEN <<cur>>
    ELSE IF s[i] = sep THEN <<cur>> \o SplitFrom(s, sep, i + 1, <<>>)
    ELSE SplitFrom(s, sep, i + 1, Append(cur, s[i]))
Split(s, sep) == SplitFrom(s, sep, 1, <<>>)

\* the loop over f.readlines() of spawn_batch_variant_calling
RECURSIVE ParseLines(_, _)
ParseLines(lines, i) ==
    IF i > Len(lines) THEN <<>>
    ELSE IF ~IsSpace(lines[i]) /\ ~StartsWith(lines[i], <<"#">>)
         THEN <<Split(Strip(lines[i]), "\t")>> \o ParseLines(lines, i + 1)
         ELSE ParseLines(lines, i + 1)

\* the samples read from the manifest file whenever there is one
SamplesOfManifestFirst(ia, lines) ==
    IF lines # <<>> THEN ParseLines(lines, 1) ELSE <<ia.sample>>

\* the samples spawn_batch_variant_calling iterates over
SamplesOf(ia, lines) == IF ia.sample # <<>> THEN <<ia.sample>> ELSE ParseLines(lines, 1)

\* spawn_batch_variant_calling that starts a job for the first sample only
spawn_batch_variant_calling_first_only(n, ok) ==
    LET samples == SamplesOf(inputArgs[n], manifestFile)
    IN  IF inputArgs[n].sample = <<>> /\ ~mainState.manifest_exists
        THEN Raise(n, FALSE)
        ELSE Return(n, workDir[n], EmptyMap, NoneVal, inputArgs[n],
               {Reg(Node("start", i, <<>>), n, "child", ids[n], inputArgs[n],
                    [NoCall EXCEPT !.sample = samples[i]], 0) : i \in DOMAIN samples \cap {1}},
               {})

\* spawn_batch_variant_calling(job, shared_ids, input_args)
spawn_batch_variant_calling(n, ok) ==
    LET samples == SamplesOf(inputArgs[n], manifestFile)
    IN  IF inputArgs[n].sample = <<>> /\ ~mainState.manifest_exists
        THEN Raise(n, FALSE)     \* readGlobalFile(input_args.manifest, ...): no such ID
        ELSE Return(n, workDir[n], EmptyMap, NoneVal, inputArgs[n],
               {Reg(Node("start", i, <<>>), n, "child", ids[n], inputArgs[n],
                    [NoCall EXCEPT !.sample = samples[i]], 0) : i \in DOMAIN samples},
               {})

\* ------------------------------------------------------ per-sample jobs

\* start: the test "if input_args.indexed"
start_indexed_inverted(ia) == ~ia.indexed

start_indexed(ia) == ia.indexed

\* start: the edge that registers haplotype_caller / index
start_next_as_child == "child"

start_next == "followOn"

\* start, with haplotype_caller registered next even when the sample is not indexed
start_successors_no_index(n, idm, ia) ==
    {Reg(Node("haplotype_caller", SampleOf(n), <<>>), n, start_next, idm, ia,
         NoCall, ia.cpu_count)}

\* start: lines 303-307, the follow-on of the node
start_successors(n, idm, ia) ==
    IF start_indexed(ia)
    THEN {Reg(Node("haplotype_caller", SampleOf(n), <<>>), n, start_next, idm, ia,
              NoCall, ia.cpu_count)}
    ELSE {Reg(Node("index", SampleOf(n), <<>>), n, start_next, idm, ia, NoCall, 0)}

\* start binding 'toil.bam' to the download of the first sample
start_first_bam(n, ok) ==
    LET sample == callArgs[n].sample
        s == SampleOf(n)
    IN  IF Len(sample) # 2 THEN Raise(n, FALSE)
        ELSE
        LET uuid == sample[1]
            url == sample[2]
            ia == [inputArgs[n] EXCEPT !.uuid = uuid, !.bam_url = url]
            bam == Node("download_url", s, TOIL_BAM)
            bai == Node("download_url", s, TOIL_BAI)
            ids1 == IF ia.ssec = NoneStr
                    THEN Put(ids[n], TOIL_BAM, Promise(Node("download_url", 1, TOIL_BAM)))
                    ELSE ids[n]
            ids2 == IF start_indexed(ia) THEN Put(ids1, TOIL_BAI, Promise(bai)) ELSE ids1
            dl1 == IF ia.ssec = NoneStr
                   THEN {Reg(bam, n, "child", EmptyMap, ia, DownloadCall(url, TOIL_BAM), 0)}
                   ELSE {}
            dl2 == IF start_indexed(ia)
                   THEN {Reg(bai, n, "child", EmptyMap, ia,
                             DownloadCall(url \o <<".bai">>, TOIL_BAI), 0)}
                   ELSE {}
        IN  Return(n, workDir[n], EmptyMap, NoneVal, ia,
                   dl1 \cup dl2 \cup start_successors(n, ids2, ia), {})

\* start(job, shared_ids, input_args, sample)
start(n, ok) ==
    LET sample == callArgs[n].sample
        s == SampleOf(n)
    IN  IF Len(sample) # 2 THEN Raise(n, FALSE)      \* uuid, url = sample
        ELSE
        LET uuid == sample[1]
            url == sample[2]
            ia == [inputArgs[n] EXCEPT !.uuid = uuid, !.bam_url = url]
            bam == Node("download_url", s, TOIL_BAM)
            bai == Node("download_url", s, TOIL_BAI)
            ids1 == IF ia.ssec = NoneStr THEN Put(ids[n], TOIL_BAM, Promise(bam))
                    ELSE ids[n]
            ids2 == IF start_indexed(ia) THEN Put(ids1, TOIL_BAI, Promise(bai)) ELSE ids1
            dl1 == IF ia.ssec = NoneStr
                   THEN {Reg(bam, n, "child", EmptyMap, ia, DownloadCall(url, TOIL_BAM), 0)}
                   ELSE {}
            dl2 == IF start_indexed(ia)
                   THEN {Reg(bai, n, "child", EmptyMap, ia,
                             DownloadCall(url \o <<".bai">>, TOIL_BAI), 0)}
                   ELSE {}
        IN  Return(n, workDir[n], EmptyMap, NoneVal, ia,
                   dl1 \cup dl2 \cup start_successors(n, ids2, ia), {})

\* index storing the ID of its output under the key 'toil.bam'
index_wrong_key(n, ok) ==
    LET h == return_input_paths(store, workDir[n], ids[n], <<TOIL_BAM>>)
        wd == WithOutputs(n, h.wd, {TOIL_BAI})
        shared_ids == Put(ids[n], TOIL_BAM, Handle(n, TOIL_BAI))
    IN  IF h.err THEN Raise(n, FALSE)
        ELSE IF ~ok THEN Raise(n, TRUE)
        ELSE Return(n, wd, StorePuts(n, wd, {TOIL_BAI}), NoneVal, inputArgs[n],
                    {Reg(Node("haplotype_caller", SampleOf(n), <<>>), n, "child",
                         shared_ids, inputArgs[n], NoCall, inputArgs[n].cpu_count)},
                    {})

\* index(job, shared_ids, input_args)
index(n, ok) ==
    LET h == return_input_paths(store, workDir[n], ids[n], <<TOIL_BAM>>)
        wd == WithOutputs(n, h.wd, {TOIL_BAI})
        shared_ids == Put(ids[n], TOIL_BAI, Handle(n, TOIL_BAI))
    IN  IF h.err THEN Raise(n, FALSE)
        ELSE IF ~ok THEN Raise(n, TRUE)
        ELSE Return(n, wd, StorePuts(n, wd, {TOIL_BAI}), NoneVal, inputArgs[n],
                    {Reg(Node("haplotype_caller", SampleOf(n), <<>>), n, "child",
                         shared_ids, inputArgs[n], NoCall, inputArgs[n].cpu_count)},
                    {})

\* haplotype_caller: what follows the docker_call (lines 379-386)
haplotype_caller_tail(n, wd0) ==
    LET ia == inputArgs[n]
        output == GvcfName(ia.uuid, ia.suffix)
        wd == WithOutputs(n, wd0, {output})
        shared_ids == Put(ids[n], output, Handle(n, output))
        sink == upload_or_move_hc(n, wd, ia.output_dir, output)
    IN  Return(n, sink.wd, StorePuts(n, wd, {output}), NoneVal, ia,
               {Reg(Node("genotype_gvcf", SampleOf(n), <<>>), n, "child",
                    shared_ids, ia, NoCall, ia.cpu_count)},
               {sink.call})

\* haplotype_caller with an except clause that logs and does not re-raise
haplotype_caller_swallow(n, ok) ==
    LET h == read_from_filestore_hc(store, workDir[n], ids[n],
                                    <<REF_FA, REF_FAI, REF_DICT, TOIL_BAM, TOIL_BAI>>)
    IN  IF h.err THEN Raise(n, FALSE)
        ELSE [haplotype_caller_tail(n, h.wd) EXCEPT !.toolFailed = ~ok]

\* haplotype_caller(job, shared_ids, input_args)
haplotype_caller(n, ok) ==
    LET h == read_from_filestore_hc(store, workDir[n], ids[n],
                                    <<REF_FA, REF_FAI, REF_DICT, TOIL_BAM, TOIL_BAI>>)
    IN  IF h.err THEN Raise(n, FALSE)
        ELSE IF ~ok THEN Raise(n, TRUE)       \* except: ...; raise
        ELSE haplotype_caller_tail(n, h.wd)

\* genotype_gvcf registering the apply stages next to the recalibrations
genotype_gvcf_successors_flat(n, idm, ia) ==
    {Reg(Node("vqsr_snp", SampleOf(n), <<>>), n, "child", idm, ia, NoCall, ia.cpu_count),
     Reg(Node("vqsr_indel", SampleOf(n), <<>>), n, "child", idm, ia, NoCall, ia.cpu_count),
     Reg(Node("apply_vqsr_snp", SampleOf(n), <<>>), n, "child", idm, ia, NoCall, 0),
     Reg(Node("apply_vqsr_indel", SampleOf(n), <<>>), n, "child", idm, ia, NoCall, 0)}

\* genotype_gvcf registering the SNP branch alone
genotype_gvcf_successors_snp_only(n, idm, ia) ==
    {Reg(Node("vqsr_snp", SampleOf(n), <<>>), n, "child", idm, ia, NoCall, ia.cpu_count)}

\* genotype_gvcf registering the two branches without a cores hint
genotype_gvcf_successors_no_hint(n, idm, ia) ==
    {Reg(Node("vqsr_snp", SampleOf(n), <<>>), n, "child", idm, ia, NoCall, 0),
     Reg(Node("vqsr_indel", SampleOf(n), <<>>), n, "child", idm, ia, NoCall, 0)}

\* genotype_gvcf: lines 431-433, the two recalibration branches
genotype_gvcf_successors(n, idm, ia) ==
    {Reg(Node("vqsr_snp", SampleOf(n), <<>>), n, "child", idm, ia, NoCall, ia.cpu_count),
     Reg(Node("vqsr_indel", SampleOf(n), <<>>), n, "child", idm, ia, NoCall, ia.cpu_count)}

\* genotype_gvcf: the '--variant' argument of its command,
\* '%s.raw.BOTH.gatk.gvcf' % input_args.uuid
genotype_gvcf_variant(ia) == ia.uuid \o <<".raw.BOTH", ".gatk", ".gvcf">>

\* genotype_gvcf(job, shared_ids, input_args)
genotype_gvcf(n, ok) ==
    LET ia == inputArgs[n]
        h == read_from_filestore_hc(store, workDir[n], ids[n],
                 <<GvcfName(ia.uuid, ia.suffix), REF_FA, REF_FAI, REF_DICT>>)
        wd == WithOutputs(n, h.wd, {UNIFIED_VCF})
        shared_ids == Put(ids[n], UNIFIED_VCF, Handle(n, UNIFIED_VCF))
    IN  IF h.err THEN Raise(n, FALSE)
        ELSE IF ~ok THEN Raise(n, TRUE)       \* except: ...; raise
        ELSE Return(n, wd, StorePuts(n, wd, {UNIFIED_VCF}), NoneVal, ia,
                    genotype_gvcf_successors(n, shared_ids, ia), {})

\* vqsr_snp that stores whatever the tool left behind before the exception
\* goes on (write_to_filestore in a finally clause)
vqsr_snp_persist_always(n, ok) ==
    LET ia == inputArgs[n]
        outputs == <<HAPSNP_RECAL, HAPSNP_TRANCHES, HAPSNP_PLOTS>>
        h == read_from_filestore_hc(store, workDir[n], ids[n],
                 <<REF_FA, REF_FAI, REF_DICT, UNIFIED_VCF,
                   HAPMAP_VCF, OMNI_VCF, DBSNP_VCF, PHASE_VCF>>)
        wd == WithOutputs(n, h.wd, Range(outputs))
        shared_ids == write_to_filestore(n, ids[n], outputs)
    IN  IF h.err THEN Raise(n, FALSE)
        ELSE IF ~ok THEN [Raise(n, TRUE) EXCEPT !.puts = StorePuts(n, wd, Range(outputs))]
        ELSE Return(n, wd, StorePuts(n, wd, Range(outputs)), NoneVal, ia,
                    {Reg(Node("apply_vqsr_snp", SampleOf(n), <<>>), n, "child",
                         shared_ids, ia, NoCall, 0)},
                    {})

\* vqsr_snp(job, shared_ids, input_args)
vqsr_snp(n, ok) ==
    LET ia == inputArgs[n]
        outputs == <<HAPSNP_RECAL, HAPSNP_TRANCHES, HAPSNP_PLOTS>>
        h == read_from_filestore_hc(store, workDir[n], ids[n],
                 <<REF_FA, REF_FAI, REF_DICT, UNIFIED_VCF,
                   HAPMAP_VCF, OMNI_VCF, DBSNP_VCF, PHASE_VCF>>)
        wd == WithOutputs(n, h.wd, Range(outputs))
        shared_ids == write_to_filestore(n, ids[n], outputs)
    IN  IF h.err THEN Raise(n, FALSE)
        ELSE IF ~ok THEN Raise(n, TRUE)
        ELSE Return(n, wd, StorePuts(n, wd, Range(outputs)), NoneVal, ia,
                    {Reg(Node("apply_vqsr_snp", SampleOf(n), <<>>), n, "child",
                         shared_ids, ia, NoCall, 0)},
                    {})

\* apply_vqsr_snp without its closing upload_or_move_hc call
apply_vqsr_snp_no_sink(n, ok) ==
    LET ia == inputArgs[n]
        h == read_from_filestore_hc(store, workDir[n], ids[n],
                 <<REF_FA, REF_FAI, REF_DICT, UNIFIED_VCF, HAPSNP_TRANCHES, HAPSNP_RECAL>>)
        output == SnpVcfName(ia.uuid, ia.suffix)
        wd == WithOutputs(n, h.wd, {output})
    IN  IF h.err THEN Raise(n, FALSE)
        ELSE IF ~ok THEN Raise(n, TRUE)
        ELSE Return(n, wd, EmptyMap, NoneVal, ia, {}, {})

\* apply_vqsr_snp(job, shared_ids, input_args)
apply_vqsr_snp(n, ok) ==
    LET ia == inputArgs[n]
        h == read_from_filestore_hc(store, workDir[n], ids[n],
                 <<REF_FA, REF_FAI, REF_DICT, UNIFIED_VCF, HAPSNP_TRANCHES, HAPSNP_RECAL>>)
        output == SnpVcfName(ia.uuid, ia.suffix)
        wd == WithOutputs(n, h.wd, {output})
        sink == upload_or_move_hc(n, wd, ia.output_dir, output)
    IN  IF h.err THEN Raise(n, FALSE)
        ELSE IF ~ok THEN Raise(n, TRUE)
        ELSE Return(n, sink.wd, EmptyMap, NoneVal, ia, {}, {sink.call})

\* vqsr_indel(job, shared_ids, input_args)
vqsr_indel(n, ok) ==
    LET ia == inputArgs[n]
        outputs == <<HAPINDEL_RECAL, HAPINDEL_TRANCHES, HAPINDEL_PLOTS>>
        h == read_from_filestore_hc(store, workDir[n], ids[n],
                 <<REF_FA, REF_FAI, REF_DICT, UNIFIED_VCF, MILLS_VCF>>)
        wd == WithOutputs(n, h.wd, Range(outputs))
        shared_ids == write_to_filestore(n, ids[n], outputs)
    IN  IF h.err THEN Raise(n, FALSE)
        ELSE IF ~ok THEN Raise(n, TRUE)
        ELSE Return(n, wd, StorePuts(n, wd, Range(outputs)), NoneVal, ia,
                    {Reg(Node("apply_vqsr_indel", SampleOf(n), <<>>), n, "child",
                         shared_ids, ia, NoCall, 0)},
                    {})

\* apply_vqsr_indel(job, shared_ids, input_args)
apply_vqsr_indel(n, ok) ==
    LET ia == inputArgs[n]
        h == read_from_filestore_hc(store, workDir[n], ids[n],
                 <<REF_FA, REF_FAI, REF_DICT, UNIFIED_VCF,
                   HAPINDEL_RECAL, HAPINDEL_TRANCHES, HAPINDEL_PLOTS>>)
        output == IndelVcfName(ia.uuid, ia.suffix)
        wd == WithOutputs(n, h.wd, {output})
        sink == upload_or_move_hc(n, wd, ia.output_dir, output)
    IN  IF h.err THEN Raise(n, FALSE)
        ELSE IF ~ok THEN Raise(n, TRUE)
        ELSE Return(n, sink.wd, EmptyMap, NoneVal, ia, {}, {sink.call})

\* the file names a job hydrates from its map: the arguments of its
\* return_input_paths / read_from_filestore_hc call
InputFilesOf(n) ==
    LET ia == inputArgs[n] IN
    CASE FnOf(n) \in {"create_reference_index_hc", "create_reference_dict_hc"} -> <<REF_FA>>
      [] FnOf(n) = "index" -> <<TOIL_BAM>>
      [] FnOf(n) = "haplotype_caller" -> <<REF_FA, REF_FAI, REF_DICT, TOIL_BAM, TOIL_BAI>>
      [] FnOf(n) = "genotype_gvcf" ->
            <<GvcfName(ia.uuid, ia.suffix), REF_FA, REF_FAI, REF_DICT>>
      [] FnOf(n) = "vqsr_snp" ->
            <<REF_FA, REF_FAI, REF_DICT, UNIFIED_VCF, HAPMAP_VCF, OMNI_VCF, DBSNP_VCF, PHASE_VCF>>
      [] FnOf(n) = "apply_vqsr_snp" ->
            <<REF_FA, REF_FAI, REF_DICT, UNIFIED_VCF, HAPSNP_TRANCHES, HAPSNP_RECAL>>
      [] FnOf(n) = "vqsr_indel" -> <<REF_FA, REF_FAI, REF_DICT, UNIFIED_VCF, MILLS_VCF>>
      [] FnOf(n) = "apply_vqsr_indel" ->
            <<REF_FA, REF_FAI, REF_DICT, UNIFIED_VCF,
              HAPINDEL_RECAL, HAPINDEL_TRANCHES, HAPINDEL_PLOTS>>
      [] OTHER -> <<>>

\* ------------------------------------------------------------ the inputs

UuidOf(i) == <<"S", ToString(i)>>
UrlOf(i) == IF i % 2 = 0 THEN <<"s3:", "//bams/", ToString(i), ".bam">>
            ELSE <<"file:", "///bams/", ToString(i), ".bam">>

CommentLine == <<"#", " ", "header", "\n">>
BlankLine == <<"\n">>
DataLine(i) == UuidOf(i) \o <<"\t">> \o UrlOf(i) \o <<"\n">>

\* a manifest as generate_manifest lays it out: comments, then k samples
Manifest(k) == <<CommentLine, BlankLine>> \o [i \in 1..k |-> DataLine(i)]

\* the namespace built from the parsed config (lines 681-687)
Config(indexed, ssec) ==
    [ref |-> <<"file:", "///ref/", "hg19.fa">>,
     phase |-> <<"s3:", "//res/", "phase.vcf">>,
     omni |-> <<"s3:", "//res/", "omni.vcf">>,
     dbsnp |-> <<"s3:", "//res/", "dbsnp.vcf">>,
     hapmap |-> <<"s3:", "//res/", "hapmap.vcf">>,
     mills |-> <<"s3:", "//res/", "mills.vcf">>,
     indexed |-> indexed, ssec |-> ssec,
     manifest |-> <<"gatk-germline-manifest.tsv">>,
     cpu_count |-> CpuCount, memory |-> <<"15">>,
     sample |-> Unset, output_dir |-> Unset, suffix |-> Unset,
     uuid |-> Unset, bam_url |-> Unset]

NoHarness == [wd |-> EmptyMap, ids |-> EmptyMap, fetches |-> EmptyMap, calls |-> 0,
              seen |-> EmptyMap, last |-> <<>>, lastRead |-> FALSE,
              repeated |-> FALSE, prevRead |-> FALSE]

LocalDir == <<"/data/out">>
S3Dir == S3Prefix \o <<"bucket/out">>

Run(indexed, ssec, out, suffix, k, inline) ==
    [indexed |-> indexed, ssec |-> ssec, out |-> out, suffix |-> suffix,
     k |-> k, inline |-> inline, config_exists |-> TRUE, manifest_exists |-> TRUE]

\* __main__ with the manifest test left out
main_requires_config_only(c) == c.config_exists

\* __main__, lines 675-679: the require calls pass
main_requires(c) == c.config_exists /\ (c.inline \/ c.manifest_exists)

StartedMain == [config_exists |-> TRUE, manifest_exists |-> TRUE, inline |-> FALSE,
                exit |-> "started"]

\* the runs of the pipeline that are explored: manifests of 1..MaxSamples
\* samples, indexed or not, to a local directory or to S3; an empty manifest;
\* an inline sample, with and without a manifest file (of MaxSamples samples)
\* at the default path; a run with an
\* encryption key; a run with batch_start's default suffix; runs without the
\* config file or without the manifest file
Runs ==
    {Run(indexed, NoneStr, o[1], o[2], k, FALSE) :
        indexed \in BOOLEAN, k \in 1..MaxSamples,
        o \in {<<LocalDir, <<".bqsr">>>>, <<S3Dir, <<".gatk">>>>}}
    \cup {Run(TRUE, NoneStr, LocalDir, <<".bqsr">>, 0, FALSE)}
    \cup {[Run(indexed, NoneStr, LocalDir, <<".bqsr">>, MaxSamples, TRUE)
             EXCEPT !.manifest_exists = indexed] : indexed \in BOOLEAN}
    \cup {[Run(TRUE, NoneStr, LocalDir, <<".bqsr">>, 1, inline)
             EXCEPT !.config_exists = FALSE] : inline \in BOOLEAN}
    \cup {[Run(TRUE, NoneStr, LocalDir, <<".bqsr">>, 1, FALSE)
             EXCEPT !.manifest_exists = FALSE]}
    \cup {Run(indexed, <<"/keys/master.key">>, LocalDir, <<".bqsr">>, 1, FALSE) :
            indexed \in BOOLEAN}
    \cup {Run(FALSE, NoneStr, LocalDir, <<>>, 1, FALSE)}

\* __main__ has run: when its require calls passed, the root job
\* batch_start(input_args, sample, output_dir, suffix) is the only node and
\* nothing has run; otherwise the program has exited and there is no node
Init ==
    \E c \in Runs :
      LET indexed == c.indexed  ssec == c.ssec  out == c.out  suffix == c.suffix
          k == c.k  inline == c.inline
      IN
        /\ manifestFile = IF c.manifest_exists THEN Manifest(k) ELSE <<>>
        /\ mainState = [config_exists |-> c.config_exists,
                        manifest_exists |-> c.manifest_exists, inline |-> inline,
                        exit |-> IF main_requires(c) THEN "started" ELSE "aborted"]
        /\ status = [n \in Nodes |-> IF n = Root /\ main_requires(c) THEN "created"
                                     ELSE "absent"]
        /\ edge = [n \in Nodes |-> NoEdge]
        /\ cores = [n \in Nodes |-> 0]
        /\ ids = [n \in Nodes |-> EmptyMap]
        /\ inputArgs = [n \in Nodes |-> Config(indexed, ssec)]
        /\ callArgs = [n \in Nodes |->
                         IF n = Root
                         THEN [NoCall EXCEPT
                                 !.sample = IF inline THEN <<UuidOf(1), UrlOf(1)>> ELSE <<>>,
                                 !.output_dir = out, !.suffix = suffix]
                         ELSE NoCall]
        /\ rv = [n \in Nodes |-> NoneVal]
        /\ store = EmptyMap
        /\ workDir = [n \in Nodes |-> EmptyMap]
        /\ sinkCalls = {}
        /\ toolFailed = {}
        /\ lateDone = {}
        /\ hState = NoHarness

\* ------------------------------------------------------------- the engine

Started(n) == status[n] \in {"running", "succeeded", "failed"}
Succeeded(n) == status[n] = "succeeded"
Registered(n) == status[n] # "absent"

\* the run is aborted: a node has failed
Halted == \E n \in Nodes : status[n] = "failed"

ChildrenOf(p) == {n \in Nodes : Registered(n) /\ edge[n].parent = p /\ edge[n].kind = "child"}
SuccessorsOf(p) == {n \in Nodes : Registered(n) /\ edge[n].parent = p}

\* the nodes below p in the graph registered so far
RECURSIVE Descendants(_)
Descendants(p) ==
    SuccessorsOf(p) \cup UNION {Descendants(c) : c \in SuccessorsOf(p)}

\* a child is ready once its parent has returned; a follow-on once its parent
\* has returned and every child of the parent, with all below it, has succeeded
Ready(n) ==
    CASE edge[n].kind = "none" -> TRUE
      [] edge[n].kind = "child" -> Succeeded(edge[n].parent)
      [] edge[n].kind = "followOn" ->
            /\ Succeeded(edge[n].parent)
            /\ \A c \in ChildrenOf(edge[n].parent) :
                  Succeeded(c) /\ \A d \in Descendants(c) : Succeeded(d)

RECURSIVE SumCores(_)
SumCores(S) == IF S = {} THEN 0
               ELSE LET n == CHOOSE x \in S : TRUE IN cores[n] + SumCores(S \ {n})

CoresInUse == SumCores({n \in Nodes : status[n] = "running"})

\* the total of the core hints the engine lets run at once
MaxCores == CpuCount

\* a promise is replaced by the return value of the job it refers to, if that
\* job has returned
Resolve(v) == IF v.promise /\ Succeeded(v.by) THEN rv[v.by] ELSE v

\* the engine starts a ready node
Dispatch(n) ==
    /\ status[n] = "created"
    /\ ~Halted
    /\ Ready(n)
    /\ Cardinality({m \in Nodes : status[m] = "running"}) < MaxWorkers
    /\ CoresInUse + cores[n] <= MaxCores
    /\ status' = [status EXCEPT ![n] = "running"]
    /\ ids' = [ids EXCEPT ![n] = [f \in DOMAIN ids[n] |-> Resolve(ids[n][f])]]
    /\ UNCHANGED <<edge, cores, inputArgs, callArgs, rv, store, workDir, sinkCalls,
                   toolFailed, lateDone, manifestFile, mainState, hState>>

RegOf(succ, m) == CHOOSE r \in succ : r.node = m

\* an engine that hands every job the one input_args object, so that what a
\* job function assigns is seen by all jobs
CompleteSharedConfig(n, res) ==
    \E r \in {res} :
    LET new == {x.node : x \in r.succ}
    IN  /\ status[n] = "running"
        /\ status' = [m \in Nodes |->
                        IF m = n THEN (IF r.raised THEN "failed" ELSE "succeeded")
                        ELSE IF m \in new THEN "created" ELSE status[m]]
        /\ edge' = [m \in Nodes |->
                      IF m \in new
                      THEN [parent |-> RegOf(r.succ, m).parent, kind |-> RegOf(r.succ, m).kind]
                      ELSE edge[m]]
        /\ cores' = [m \in Nodes |-> IF m \in new THEN RegOf(r.succ, m).cores ELSE cores[m]]
        /\ ids' = [m \in Nodes |-> IF m \in new THEN RegOf(r.succ, m).ids ELSE ids[m]]
        /\ inputArgs' = [m \in Nodes |-> r.ia]
        /\ callArgs' = [m \in Nodes |->
                          IF m \in new THEN RegOf(r.succ, m).call ELSE callArgs[m]]
        /\ rv' = [rv EXCEPT ![n] = r.rv]
        /\ store' = [h \in DOMAIN store \cup DOMAIN r.puts |->
                       IF h \in DOMAIN r.puts THEN r.puts[h] ELSE store[h]]
        /\ workDir' = [workDir EXCEPT ![n] = r.wd]
        /\ sinkCalls' = sinkCalls \cup r.sinks
        /\ toolFailed' = IF r.toolFailed THEN toolFailed \cup {n} ELSE toolFailed
        /\ lateDone' = IF Halted THEN lateDone \cup {n} ELSE lateDone
        /\ UNCHANGED <<manifestFile, mainState, hState>>

\* node n runs its job function, with result res
Complete(n, res) ==
    \E r \in {res} :
    LET new == {x.node : x \in r.succ}
    IN  /\ status[n] = "running"
        /\ status' = [m \in Nodes |->
                        IF m = n THEN (IF r.raised THEN "failed" ELSE "succeeded")
                        ELSE IF m \in new THEN "created" ELSE status[m]]
        /\ edge' = [m \in Nodes |->
                      IF m \in new
                      THEN [parent |-> RegOf(r.succ, m).parent, kind |-> RegOf(r.succ, m).kind]
                      ELSE edge[m]]
        /\ cores' = [m \in Nodes |-> IF m \in new THEN RegOf(r.succ, m).cores ELSE cores[m]]
        /\ ids' = [m \in Nodes |-> IF m \in new THEN RegOf(r.succ, m).ids ELSE ids[m]]
        /\ inputArgs' = [m \in Nodes |->
                           IF m = n THEN r.ia
                           ELSE IF m \in new THEN RegOf(r.succ, m).ia ELSE inputArgs[m]]
        /\ callArgs' = [m \in Nodes |->
                          IF m \in new THEN RegOf(r.succ, m).call ELSE callArgs[m]]
        /\ rv' = [rv EXCEPT ![n] = r.rv]
        /\ store' = [h \in DOMAIN store \cup DOMAIN r.puts |->
                       IF h \in DOMAIN r.puts THEN r.puts[h] ELSE store[h]]
        /\ workDir' = [workDir EXCEPT ![n] = r.wd]
        /\ sinkCalls' = sinkCalls \cup r.sinks
        /\ toolFailed' = IF r.toolFailed THEN toolFailed \cup {n} ELSE toolFailed
        /\ lateDone' = IF Halted THEN lateDone \cup {n} ELSE lateDone
        /\ UNCHANGED <<manifestFile, mainState, hState>>

Running(fn) == {n \in Nodes : FnOf(n) = fn /\ status[n] = "running"}

DispatchNode == \E n \in Nodes : Dispatch(n)
RunBatchStart == \E n \in Running("batch_start") : Complete(n, batch_start(n, TRUE))
RunDownloadUrl ==
    \E n \in Running("download_url"), ok \in BOOLEAN : Complete(n, download_url(n, ok))
RunCreateReferenceIndex ==
    \E n \in Running("create_reference_index_hc"), ok \in BOOLEAN :
        Complete(n, create_reference_index_hc(n, ok))
RunCreateReferenceDict ==
    \E n \in Running("create_reference_dict_hc"), ok \in BOOLEAN :
        Complete(n, create_reference_dict_hc(n, ok))
RunSpawnBatchVariantCalling ==
    \E n \in Running("spawn_batch_variant_calling") :
        Complete(n, spawn_batch_variant_calling(n, TRUE))
RunStart == \E n \in Running("start") : Complete(n, start(n, TRUE))
RunIndex == \E n \in Running("index"), ok \in BOOLEAN : Complete(n, index(n, ok))
RunHaplotypeCaller ==
    \E n \in Running("haplotype_caller"), ok \in BOOLEAN : Complete(n, haplotype_caller(n, ok))
RunGenotypeGvcf ==
    \E n \in Running("genotype_gvcf"), ok \in BOOLEAN : Complete(n, genotype_gvcf(n, ok))
RunVqsrSnp == \E n \in Running("vqsr_snp"), ok \in BOOLEAN : Complete(n, vqsr_snp(n, ok))
RunApplyVqsrSnp ==
    \E n \in Running("apply_vqsr_snp"), ok \in BOOLEAN : Complete(n, apply_vqsr_snp(n, ok))
RunVqsrIndel == \E n \in Running("vqsr_indel"), ok \in BOOLEAN : Complete(n, vqsr_indel(n, ok))
RunApplyVqsrIndel ==
    \E n \in Running("apply_vqsr_indel"), ok \in BOOLEAN : Complete(n, apply_vqsr_indel(n, ok))

Next ==
    \/ DispatchNode
    \/ RunBatchStart
    \/ RunDownloadUrl
    \/ RunCreateReferenceIndex
    \/ RunCreateReferenceDict
    \/ RunSpawnBatchVariantCalling
    \/ RunStart
    \/ RunIndex
    \/ RunHaplotypeCaller
    \/ RunGenotypeGvcf
    \/ RunVqsrSnp
    \/ RunApplyVqsrSnp
    \/ RunVqsrIndel
    \/ RunApplyVqsrIndel

Spec == Init /\ [][Next]_vars

\* a worker that runs a job function returns from it, and the engine starts a
\* node it may start
FairSpec == Init /\ [][Next]_vars /\ WF_vars(Next)

\* -------------------------------------------------------- staging harness
\* One job's work dir staged into repeatedly: the file store holds some files,
\* the id map binds each name to a stored file, to an ID the store does not
\* hold, or to nothing, and the work dir may already hold files.

HFiles == {REF_FA, TOIL_BAM}
HWriter == Node("download_url", 0, REF_FA)
HUnknown(f) == Handle(NoNode, f)
HStore == [h \in {Handle(HWriter, f) : f \in HFiles} |-> UrlContent(<<"stored:">> \o h.name)]
HLocal(f) == UrlContent(<<"local:">> \o f)
HIdMaps ==
    UNION {[D -> {"stored", "unknown"}] : D \in SUBSET HFiles}
HNameSeqs == UNION {[1..k -> HFiles] : k \in 1..MaxNames}

RECURSIVE CountIn(_, _)
CountIn(seq, f) ==
    IF seq = <<>> THEN 0 ELSE (IF Head(seq) = f THEN 1 ELSE 0) + CountIn(Tail(seq), f)

InitHydrate ==
    \E present \in SUBSET HFiles, bound \in HIdMaps :
        /\ status = [n \in Nodes |-> "absent"]
        /\ edge = [n \in Nodes |-> NoEdge]
        /\ cores = [n \in Nodes |-> 0]
        /\ ids = [n \in Nodes |-> EmptyMap]
        /\ inputArgs = [n \in Nodes |-> Config(FALSE, NoneStr)]
        /\ callArgs = [n \in Nodes |-> NoCall]
        /\ rv = [n \in Nodes |-> NoneVal]
        /\ store = HStore
        /\ workDir = [n \in Nodes |-> EmptyMap]
        /\ sinkCalls = {}
        /\ toolFailed = {}
        /\ lateDone = {}
        /\ manifestFile = <<>>
        /\ mainState = StartedMain
        /\ hState = [NoHarness EXCEPT
                       !.wd = [f \in present |-> HLocal(f)],
                       !.ids = [f \in DOMAIN bound |->
                                  IF bound[f] = "stored" THEN Handle(HWriter, f)
                                  ELSE HUnknown(f)],
                       !.fetches = [f \in HFiles |-> 0],
                       !.seen = [f \in present |-> HLocal(f)]]

\* the harness after a staging call with result r for the names fs
Staged(fs, r) ==
    [hState EXCEPT
       !.wd = r.wd,
       !.fetches = [f \in HFiles |-> @[f] + CountIn(r.fetched, f)],
       !.calls = @ + 1,
       !.seen = [f \in DOMAIN r.wd |-> IF f \in DOMAIN @ THEN @[f] ELSE r.wd[f]],
       !.last = fs, !.lastRead = (r.fetched # <<>>),
       !.repeated = (fs = hState.last), !.prevRead = hState.lastRead]

\* a job calls read_from_filestore_hc on its work dir
HydrateCall ==
    \E fs \in HNameSeqs :
        /\ hState.calls < MaxCalls
        /\ hState' = Staged(fs, read_from_filestore_hc(store, hState.wd, hState.ids, fs))
        /\ UNCHANGED pipelineVars

\* a job calls return_input_paths on its work dir
ReturnInputPathsCall ==
    \E fs \in HNameSeqs :
        /\ hState.calls < MaxCalls
        /\ hState' = Staged(fs, return_input_paths(store, hState.wd, hState.ids, fs))
        /\ UNCHANGED pipelineVars

NextHydrate == HydrateCall \/ ReturnInputPathsCall

SpecHydrate == InitHydrate /\ [][NextHydrate]_vars

\* ------------------------------------------------------------ output sink
\* upload_or_move_hc called for the files of one work dir, with an output
\* directory that is local or on S3, that exists or not, or whose path is
\* taken by a file.

SinkNode == Node("haplotype_caller", 1, <<>>)
SinkFiles == {GvcfName(UuidOf(1), <<".bqsr">>), SnpVcfName(UuidOf(1), <<".bqsr">>),
              IndelVcfName(UuidOf(1), <<".bqsr">>)}
SinkDirs == {LocalDir, <<"out">>, S3Dir, <<"s3:", "/mnt/out">>, <<"s3">>}
NoSinkCall == [node |-> NoNode, mode |-> "none", dest |-> <<>>, name |-> <<>>,
               content |-> UrlContent(<<>>)]
OldFile(path) == UrlContent(<<"old:">> \o path)

\* the output file systems a call may find: empty; the directory there; the
\* directory there with a file of the same name in it; a file in its place
SinkFileSystems(dir) ==
    {EmptyFs, [EmptyFs EXCEPT !.dirs = {dir}]}
    \cup {[EmptyFs EXCEPT !.dirs = {dir},
                          !.files = [p \in {PathJoin(dir, f)} |-> OldFile(p)]] :
            f \in SinkFiles}
    \cup {[EmptyFs EXCEPT !.files = [p \in {dir} |-> OldFile(p)]]}

IdlePipeline ==
    /\ status = [n \in Nodes |-> "absent"]
    /\ edge = [n \in Nodes |-> NoEdge]
    /\ cores = [n \in Nodes |-> 0]
    /\ ids = [n \in Nodes |-> EmptyMap]
    /\ inputArgs = [n \in Nodes |-> Config(FALSE, NoneStr)]
    /\ callArgs = [n \in Nodes |-> NoCall]
    /\ rv = [n \in Nodes |-> NoneVal]
    /\ store = EmptyMap
    /\ workDir = [n \in Nodes |-> EmptyMap]
    /\ sinkCalls = {}
    /\ toolFailed = {}
    /\ lateDone = {}
    /\ manifestFile = <<>>
    /\ mainState = StartedMain

InitSink ==
    /\ IdlePipeline
    /\ \E dir \in SinkDirs : \E fs \in SinkFileSystems(dir) :
          hState = [wd |-> [f \in SinkFiles |-> ToolContent(SinkNode, f)],
                    output_dir |-> dir, fs |-> fs, last |-> NoSinkCall,
                    before |-> EmptyMap, err |-> FALSE]

\* a job calls upload_or_move_hc for a file of its work dir
SinkCall ==
    \E f \in DOMAIN hState.wd :
        LET r == upload_or_move_hc(SinkNode, hState.wd, hState.output_dir, f)
            e == SinkEffect(hState.fs, hState.wd, r.call)
        IN  /\ ~hState.err
            /\ hState' = [hState EXCEPT !.wd = e.wd, !.fs = e.fs, !.last = r.call,
                                        !.before = hState.wd, !.err = e.err]
            /\ UNCHANGED pipelineVars

NextSink == SinkCall

SpecSink == InitSink /\ [][NextSink]_vars

\* ------------------------------------------------------- manifest parsing
\* spawn_batch_variant_calling run on the manifests of up to MaxLines lines:
\* the references are prepared and the job is running.

DataLineNoNl(i) == UuidOf(i) \o <<"\t">> \o UrlOf(i)
CommentedDataLine == <<"#">> \o DataLine(1)
WhiteLine == <<" ", "\t", "\n">>

\* the lines of a manifest: data lines, comments and blank lines
ManifestLines ==
    {DataLine(i) : i \in Samples}
    \cup {CommentLine, CommentedDataLine, BlankLine, WhiteLine}

IsDataLine(line) == \E i \in Samples : line \in {DataLine(i), DataLineNoNl(i)}

\* text files of at most MaxLines lines with at most MaxSamples data lines;
\* the last line of a file may lack its newline
Manifests ==
    LET full == {m \in UNION {[1..k -> ManifestLines] : k \in 0..MaxLines} :
                    Len(SelectSeq(m, IsDataLine)) <= MaxSamples}
        cut(m) == [m EXCEPT ![Len(m)] = SubSeq(@, 1, Len(@) - 1)]
    IN  full \cup {cut(m) : m \in {x \in full : Len(x) > 0 /\ IsDataLine(x[Len(x)])}}

\* the run up to the start of spawn_batch_variant_calling, for a manifest run
\* of indexed samples to a local directory
PreparedForSpawn ==
    LET names == <<REF_FA>> \o shared_file_names
        ia == [Config(TRUE, NoneStr) EXCEPT !.sample = <<>>, !.output_dir = LocalDir,
                                           !.suffix = <<".bqsr">>]
        urls == <<ia.ref, ia.phase, ia.omni, ia.dbsnp, ia.hapmap, ia.mills>>
        dl(f) == Node("download_url", 0, f)
        ix == Node("create_reference_index_hc", 0, <<>>)
        dc == Node("create_reference_dict_hc", 0, <<>>)
        sp == Node("spawn_batch_variant_calling", 0, <<>>)
        url(f) == urls[CHOOSE i \in DOMAIN names : names[i] = f]
        ids0 == [f \in Range(names) |-> Handle(dl(f), f)]
        ids1 == Put(ids0, REF_FAI, Handle(ix, REF_FAI))
        ids2 == Put(ids1, REF_DICT, Handle(dc, REF_DICT))
        ref == UrlContent(ia.ref)
        done == {Root, ix, dc} \cup RefDownloads
    IN  /\ status = [n \in Nodes |-> IF n \in done THEN "succeeded"
                                     ELSE IF n = sp THEN "running" ELSE "absent"]
        /\ edge = [n \in Nodes |->
                     IF n \in RefDownloads THEN [parent |-> Root, kind |-> "child"]
                     ELSE IF n = ix THEN [parent |-> Root, kind |-> "followOn"]
                     ELSE IF n = dc THEN [parent |-> ix, kind |-> "child"]
                     ELSE IF n = sp THEN [parent |-> dc, kind |-> "child"]
                     ELSE NoEdge]
        /\ cores = [n \in Nodes |-> 0]
        /\ ids = [n \in Nodes |->
                    IF n = ix THEN ids0 ELSE IF n = dc THEN ids1
                    ELSE IF n = sp THEN ids2 ELSE EmptyMap]
        /\ inputArgs = [n \in Nodes |->
                          IF n \in done \cup {sp} THEN ia ELSE Config(TRUE, NoneStr)]
        /\ callArgs = [n \in Nodes |->
                         IF n = Root
                         THEN [NoCall EXCEPT !.sample = <<>>, !.output_dir = LocalDir,
                                             !.suffix = <<".bqsr">>]
                         ELSE IF n \in RefDownloads THEN DownloadCall(url(n[3]), n[3])
                         ELSE NoCall]
        /\ rv = [n \in Nodes |-> IF n \in RefDownloads THEN Handle(n, n[3]) ELSE NoneVal]
        /\ store = [h \in {ids2[f] : f \in DOMAIN ids2} |->
                      IF h.by = ix \/ h.by = dc THEN ToolContent(h.by, h.name)
                      ELSE UrlContent(url(h.name))]
        /\ workDir = [n \in Nodes |->
                        IF n \in RefDownloads THEN [f \in {n[3]} |-> UrlContent(url(f))]
                        ELSE IF n = ix
                        THEN [f \in {REF_FA, REF_FAI} |->
                                IF f = REF_FA THEN ref ELSE ToolContent(ix, f)]
                        ELSE IF n = dc
                        THEN [f \in {REF_FA, REF_DICT} |->
                                IF f = REF_FA THEN ref ELSE ToolContent(dc, f)]
                        ELSE EmptyMap]
        /\ sinkCalls = {}
        /\ toolFailed = {}
        /\ lateDone = {}
        /\ hState = NoHarness

InitManifest == manifestFile \in Manifests /\ mainState = StartedMain /\ PreparedForSpawn

NextManifest == RunSpawnBatchVariantCalling

SpecManifest == InitManifest /\ [][NextManifest]_vars

\* ------------------------------------------------------------ vocabulary

N0(fn) == Node(fn, 0, <<>>)
NS(fn, s) == Node(fn, s, <<>>)
BamDownload(s) == Node("download_url", s, TOIL_BAM)
BaiDownload(s) == Node("download_url", s, TOIL_BAI)

\* nothing is waiting or running
Quiescent == \A n \in Nodes : status[n] \in {"absent", "succeeded", "failed"}

\* the run is over and no node failed
FinishedOk == Quiescent /\ ~Halted /\ Succeeded(Root) /\ toolFailed = {}

\* the samples of the run, once spawn_batch_variant_calling has run
RunSamples == {s \in Samples : Registered(NS("start", s))}

SinksOf(s) == {c \in sinkCalls : SampleOf(c.node) = s}
SinkBy(n) == {c \in sinkCalls : c.node = n}

\* the function of the node that registers a node of function fn in the tree
\* of the module docstring (0 -> 1 -> 2 -> 3 -> 4 -> 5 -> 6,7 -> 8,9)
TreeParents(n) ==
    CASE FnOf(n) = "download_url" ->
            IF SampleOf(n) = 0 THEN {Root} ELSE {NS("start", SampleOf(n))}
      [] FnOf(n) = "create_reference_index_hc" -> {Root}
      [] FnOf(n) = "create_reference_dict_hc" -> {N0("create_reference_index_hc")}
      [] FnOf(n) = "spawn_batch_variant_calling" -> {N0("create_reference_dict_hc")}
      [] FnOf(n) = "start" -> {N0("spawn_batch_variant_calling")}
      [] FnOf(n) = "index" -> {NS("start", SampleOf(n))}
      [] FnOf(n) = "haplotype_caller" ->
            {NS("start", SampleOf(n)), NS("index", SampleOf(n))}
      [] FnOf(n) = "genotype_gvcf" -> {NS("haplotype_caller", SampleOf(n))}
      [] FnOf(n) = "vqsr_snp" -> {NS("genotype_gvcf", SampleOf(n))}
      [] FnOf(n) = "vqsr_indel" -> {NS("genotype_gvcf", SampleOf(n))}
      [] FnOf(n) = "apply_vqsr_snp" -> {NS("vqsr_snp", SampleOf(n))}
      [] FnOf(n) = "apply_vqsr_indel" -> {NS("vqsr_indel", SampleOf(n))}
      [] OTHER -> {}

\* ------------------------------------------------------------------ C1

\* C1 as stated: no node has executed unless every node in its children set
\* has succeeded.
C1_NoNodeBeforeItsChildren ==
    \A n \in Nodes : Started(n) => \A c \in ChildrenOf(n) : Succeeded(c)

\* C1 (amended): the graph is the tree of the pipeline and every execution is
\* a topological order of it: a node other than the root is registered by its
\* parent in the tree and never starts before that parent has succeeded; a
\* follow-on never starts before all children of its parent have succeeded.
C1_TopologicalOrder ==
    \A n \in Nodes \ {Root} :
        /\ Registered(n) => edge[n].parent \in TreeParents(n)
        /\ Started(n) =>
              /\ Succeeded(edge[n].parent)
              /\ edge[n].kind = "followOn" =>
                    \A c \in ChildrenOf(edge[n].parent) : Succeeded(c)

\* a two-sample run with both branches of the last sample done
C1_Witness ==
    /\ Cardinality(RunSamples) = MaxSamples
    /\ Succeeded(NS("apply_vqsr_snp", MaxSamples))
    /\ Succeeded(NS("apply_vqsr_indel", MaxSamples))
    /\ Succeeded(NS("apply_vqsr_snp", 1))

\* ------------------------------------------------------------------ C2

\* C2: a follow-on never starts before its parent and every child of that
\* parent have succeeded: create_reference_index_hc is the follow-on of
\* batch_start and starts only after the six reference downloads have
\* succeeded; the follow-on of start (haplotype_caller when indexed, index
\* otherwise) starts only after every download_url child of that start node
\* has succeeded.
C2_FollowOnAfterChildren ==
    /\ Started(N0("create_reference_index_hc")) =>
          /\ Succeeded(Root)
          /\ \A d \in RefDownloads : d \in ChildrenOf(Root) /\ Succeeded(d)
    /\ \A s \in Samples :
          LET st == NS("start", s)
              fo == IF inputArgs[st].indexed THEN NS("haplotype_caller", s)
                    ELSE NS("index", s)
              dl == {d \in {BamDownload(s), BaiDownload(s)} : Registered(d)}
          IN  /\ Succeeded(st) /\ inputArgs[st].ssec = NoneStr => BamDownload(s) \in dl
              /\ Succeeded(st) /\ inputArgs[st].indexed => BaiDownload(s) \in dl
              /\ Started(fo) =>
                    /\ Succeeded(st)
                    /\ \A d \in dl : edge[d].parent = st /\ Succeeded(d)

\* the follow-on of an indexed sample's start node runs, after the reference
\* index did: both fan-ins have happened
C2_Witness ==
    \E s \in Samples :
        /\ inputArgs[NS("start", s)].indexed
        /\ Started(NS("haplotype_caller", s))
        /\ Succeeded(BamDownload(s)) /\ Succeeded(BaiDownload(s))
        /\ Succeeded(N0("create_reference_index_hc"))

\* ------------------------------------------------------------------ C3

StagePredecessor(n) ==
    CASE FnOf(n) = "haplotype_caller" ->
            IF inputArgs[n].indexed THEN {} ELSE {NS("index", SampleOf(n))}
      [] FnOf(n) = "genotype_gvcf" -> {NS("haplotype_caller", SampleOf(n))}
      [] FnOf(n) = "vqsr_snp" -> {NS("genotype_gvcf", SampleOf(n))}
      [] FnOf(n) = "vqsr_indel" -> {NS("genotype_gvcf", SampleOf(n))}
      [] FnOf(n) = "apply_vqsr_snp" -> {NS("vqsr_snp", SampleOf(n))}
      [] FnOf(n) = "apply_vqsr_indel" -> {NS("vqsr_indel", SampleOf(n))}
      [] OTHER -> {}

\* C3: per sample the stages run in the order index (only when the sample is
\* not indexed), haplotype_caller, genotype_gvcf, then vqsr_snp, apply_vqsr_snp,
\* sink and vqsr_indel, apply_vqsr_indel, sink: no stage has started unless its
\* predecessor has succeeded, index exists only for a sample that is not
\* indexed, and a branch's sink call is made only once its apply stage's tool
\* has succeeded.
C3_StageOrder ==
    \A s \in Samples :
        /\ Registered(NS("index", s)) => ~inputArgs[NS("index", s)].indexed
        /\ \A fn \in SampleFns :
              Started(NS(fn, s)) => \A p \in StagePredecessor(NS(fn, s)) : Succeeded(p)
        /\ \A fn \in {"apply_vqsr_snp", "apply_vqsr_indel"} :
              SinkBy(NS(fn, s)) # {} => Succeeded(NS(fn, s)) /\ NS(fn, s) \notin toolFailed

\* a sample that was not indexed went through every stage of both branches
C3_Witness ==
    \E s \in Samples :
        /\ Succeeded(NS("index", s))
        /\ SinkBy(NS("apply_vqsr_snp", s)) # {}
        /\ SinkBy(NS("apply_vqsr_indel", s)) # {}

\* ------------------------------------------------------------------ C4

\* C4 as stated: a failure-free run of one sample makes exactly two sink
\* calls, the SNP one and the Indel one, and no other.
C4_ExactlyTwoSinkCalls ==
    FinishedOk /\ RunSamples = {1} =>
        /\ Cardinality(sinkCalls) = 2
        /\ {c.node : c \in sinkCalls} = {NS("apply_vqsr_snp", 1), NS("apply_vqsr_indel", 1)}

\* C4 (amended): a failure-free run of one sample makes exactly three sink
\* calls: haplotype_caller's for the gVCF, apply_vqsr_snp's for the
\* SNP-recalibrated VCF and apply_vqsr_indel's for the Indel-recalibrated VCF,
\* each for the file that node's tool wrote, and no other.
C4_ThreeSinkCalls ==
    FinishedOk /\ RunSamples = {1} =>
        /\ Cardinality(sinkCalls) = 3
        /\ {c.node : c \in sinkCalls} =
              {NS("haplotype_caller", 1), NS("apply_vqsr_snp", 1), NS("apply_vqsr_indel", 1)}
        /\ \A c \in sinkCalls : c.content = ToolContent(c.node, c.name)

C4_Witness == FinishedOk /\ RunSamples = {1} /\ sinkCalls # {}

\* ------------------------------------------------------------------ C5

ApplySinks(s) ==
    {c \in SinksOf(s) : FnOf(c.node) \in {"apply_vqsr_snp", "apply_vqsr_indel"}}

\* C5: the name of every artifact that apply_vqsr_snp and apply_vqsr_indel
\* pass to the sink embeds the identifier of the node's sample (as given in
\* its sample descriptor) and the suffix the run was configured with, and the
\* SNP and Indel names of one sample differ.
C5_SinkNames ==
    \A s \in Samples :
        /\ \A c \in ApplySinks(s) :
              /\ Embeds(c.name, callArgs[NS("start", s)].sample[1])
              /\ Embeds(c.name, callArgs[Root].suffix)
        /\ \A c1, c2 \in ApplySinks(s) : c1.node # c2.node => c1.name # c2.name

\* both VCFs of the last of several samples were handed to the sink, with a suffix
C5_Witness ==
    /\ Cardinality(ApplySinks(MaxSamples)) = 2
    /\ Cardinality(RunSamples) = MaxSamples
    /\ callArgs[Root].suffix # <<>>

\* ------------------------------------------------------------------ C6

\* C6: when the configuration says the sample is indexed, start creates no
\* index node and haplotype_caller is its follow-on; otherwise index is the
\* follow-on of start, haplotype_caller is registered by index and never
\* starts before index has succeeded and bound toil.bam.bai to the file it
\* stored.
C6_IndexOnlyWhenNeeded ==
    \A s \in Samples :
        LET st == NS("start", s)
            ix == NS("index", s)
            hc == NS("haplotype_caller", s)
        IN  IF inputArgs[Root].indexed
            THEN /\ ~Registered(ix)
                 /\ Succeeded(st) =>
                       Registered(hc) /\ edge[hc] = [parent |-> st, kind |-> "followOn"]
            ELSE /\ Succeeded(st) =>
                       Registered(ix) /\ edge[ix] = [parent |-> st, kind |-> "followOn"]
                 /\ Registered(hc) => edge[hc] = [parent |-> ix, kind |-> "child"]
                 /\ Started(hc) =>
                       /\ Succeeded(ix)
                       /\ TOIL_BAI \in DOMAIN ids[hc]
                       /\ ids[hc][TOIL_BAI] = Handle(ix, TOIL_BAI)
                       /\ CanRead(store, ids[hc][TOIL_BAI])

\* haplotype_caller of a sample that had to be indexed has started
C6_Witness ==
    \E s \in Samples :
        /\ ~inputArgs[Root].indexed
        /\ Succeeded(NS("index", s))
        /\ Started(NS("haplotype_caller", s))

\* ------------------------------------------------------------------ C7

\* once a node has failed, no node is started and a failed node stays failed
NoAdmissionAfterFailure ==
    Halted => \A n \in Nodes :
                 /\ status'[n] = "running" => status[n] = "running"
                 /\ status[n] = "failed" => status'[n] = "failed"

\* C7: a node failure is fatal to the run: a node whose download or
\* docker_call failed is a failed node (the exception is not swallowed), and
\* from the first failure on no node is started anywhere in the workflow, the
\* failed node never runs again, and the run stays failed.
C7_FailureIsFatal ==
    /\ [](\A n \in toolFailed : status[n] = "failed")
    /\ [][NoAdmissionAfterFailure]_vars

\* a tool failure has left a ready node waiting that is never started
C7_Witness ==
    /\ \E n \in toolFailed : FnOf(n) \in {"haplotype_caller", "genotype_gvcf"}
    /\ \E m \in Nodes : status[m] = "created" /\ Ready(m)
    /\ \A m \in Nodes : status[m] # "running"

\* ------------------------------------------------------------------ C8

BranchFns == {"vqsr_snp", "apply_vqsr_snp", "vqsr_indel", "apply_vqsr_indel"}

BothBranchesReachTheSink ==
    \A s \in Samples :
        Quiescent /\ ~Halted /\ Succeeded(NS("genotype_gvcf", s)) =>
            /\ Succeeded(NS("vqsr_snp", s)) /\ Succeeded(NS("vqsr_indel", s))
            /\ SinkBy(NS("apply_vqsr_snp", s)) # {}
            /\ SinkBy(NS("apply_vqsr_indel", s)) # {}

\* every branch node that was started returns, whatever has failed meanwhile
\* (a node that has returned never runs again, by NoAdmissionAfterFailure and
\* the engine starting only created nodes)
DispatchedBranchFinishes ==
    <>[](\A s \in Samples, fn \in BranchFns : status[NS(fn, s)] # "running")

\* C8: genotype_gvcf fans out into the SNP and the Indel branch; when no node
\* fails both branches make their sink call; when a node fails, a branch node
\* that is already running still runs to completion, and no node is started
\* after the failure.
C8_FanOutIndependence ==
    /\ []BothBranchesReachTheSink
    /\ DispatchedBranchFinishes
    /\ [][NoAdmissionAfterFailure]_vars

\* one branch's tool failed while the other branch's node was running, and
\* that node then succeeded
C8_Witness ==
    \E s \in Samples :
        \E a \in {NS("vqsr_snp", s), NS("apply_vqsr_snp", s)},
           b \in {NS("vqsr_indel", s), NS("apply_vqsr_indel", s)} :
            /\ a \in toolFailed
            /\ b \in lateDone
            /\ Succeeded(b)

\* ------------------------------------------------------------------ C9

\* C9: no node reads a promise before its producer has run: every value in the
\* id map of a node that has started is a concrete file store ID, written by a
\* node that has succeeded and held by the store.
C9_PromisesResolved ==
    \A n \in Nodes :
        Started(n) =>
            \A f \in DOMAIN ids[n] :
                /\ ~ids[n][f].promise
                /\ Succeeded(ids[n][f].by)
                /\ CanRead(store, ids[n][f])

\* haplotype_caller runs on the IDs the downloads promised
C9_Witness ==
    \E s \in Samples :
        /\ Started(NS("haplotype_caller", s))
        /\ {TOIL_BAM, TOIL_BAI, REF_FA} \subseteq DOMAIN ids[NS("haplotype_caller", s)]
        /\ ids[NS("haplotype_caller", s)][TOIL_BAM] = rv[BamDownload(s)]
        /\ ids[NS("haplotype_caller", s)][TOIL_BAI] = rv[BaiDownload(s)]
        /\ ids[NS("haplotype_caller", s)][REF_FA] = rv[Node("download_url", 0, REF_FA)]

\* ------------------------------------------------------------------ C10

\* C10: staging is idempotent: over any number of read_from_filestore_hc /
\* return_input_paths calls on one work dir with one id map, a file is read
\* from the file store at most once and the work dir keeps the file it first
\* held under a name; and a call repeated on the directory the first call left
\* reads nothing from the store and leaves the directory as it was.
C10_HydrateIdempotent ==
    /\ \A f \in HFiles : hState.fetches # EmptyMap => hState.fetches[f] <= 1
    /\ \A f \in DOMAIN hState.seen : f \in DOMAIN hState.wd /\ hState.wd[f] = hState.seen[f]
    /\ \A fs \in HNameSeqs :
          LET r1 == read_from_filestore_hc(store, hState.wd, hState.ids, fs)
              r2 == read_from_filestore_hc(store, r1.wd, hState.ids, fs)
          IN  r2.fetched = <<>> /\ r2.wd = r1.wd

\* the same names were staged twice: the first call read from the store, the
\* second found the files and read nothing
C10_Witness ==
    /\ hState.calls = 2
    /\ hState.repeated
    /\ hState.prevRead
    /\ ~hState.lastRead
    /\ \E f \in HFiles : hState.fetches[f] = 1 /\ hState.wd[f] = store[hState.ids[f]]

\* ------------------------------------------------------------------ C11

\* the artifact that the writer of a file store ID handed to writeGlobalFile:
\* the file a download fetched from its URL, or the file a tool wrote
Original(h) ==
    IF FnOf(h.by) = "download_url" THEN UrlContent(callArgs[h.by].url)
    ELSE ToolContent(h.by, h.name)

\* C11: round trip: the store holds under every ID the artifact that was put,
\* and a file that a later node staged into its work dir through the ID bound
\* to its name is that same artifact.
C11_RoundTrip ==
    /\ \A h \in DOMAIN store : store[h] = Original(h)
    /\ \A n \in Nodes : \A f \in DOMAIN workDir[n] :
          (f \in DOMAIN ids[n] /\ ~ids[n][f].promise /\ ids[n][f].by # n) =>
              workDir[n][f] = Original(ids[n][f])

\* apply_vqsr_snp staged the recalibration table that vqsr_snp persisted with
\* write_to_filestore, and the reference a download stored
C11_Witness ==
    \E s \in Samples :
        LET n == NS("apply_vqsr_snp", s)
        IN  /\ Succeeded(n)
            /\ {HAPSNP_RECAL, HAPSNP_TRANCHES, REF_FA} \subseteq DOMAIN workDir[n]
            /\ workDir[n][HAPSNP_RECAL] = ToolContent(NS("vqsr_snp", s), HAPSNP_RECAL)
            /\ workDir[n][HAPSNP_TRANCHES] = ToolContent(NS("vqsr_snp", s), HAPSNP_TRANCHES)
            /\ workDir[n][REF_FA] = UrlContent(inputArgs[n].ref)

\* ------------------------------------------------------------------ C12

\* the (uuid, url) pair a data line was written from
PairOf(line) ==
    LET i == CHOOSE j \in Samples : line \in {DataLine(j), DataLineNoNl(j)}
    IN  <<UuidOf(i), UrlOf(i)>>

\* the pairs of the data lines of a manifest, in file order
DataPairs(lines) ==
    LET data == SelectSeq(lines, IsDataLine)
    IN  [j \in DOMAIN data |-> PairOf(data[j])]

\* C12: for a manifest of tab-separated data lines, blank lines and lines that
\* start with '#', the samples spawn_batch_variant_calling iterates over are
\* exactly the (uuid, url) pairs of the data lines, in file order, and it
\* registers one start job per pair, with that pair as its sample.
C12_ManifestParsing ==
    LET sp == N0("spawn_batch_variant_calling")
        pairs == DataPairs(manifestFile)
    IN  /\ SamplesOf(inputArgs[sp], manifestFile) = pairs
        /\ Succeeded(sp) =>
              \A i \in Samples :
                  IF i <= Len(pairs)
                  THEN Registered(NS("start", i)) /\ callArgs[NS("start", i)].sample = pairs[i]
                  ELSE ~Registered(NS("start", i))

\* '# header', a blank line, 'A<TAB>urlA', 'B<TAB>urlB' gave the start jobs of A and B
C12_Witness ==
    /\ manifestFile = <<CommentLine, BlankLine, DataLine(1), DataLine(2)>>
    /\ Succeeded(N0("spawn_batch_variant_calling"))
    /\ callArgs[NS("start", 1)].sample = <<UuidOf(1), UrlOf(1)>>
    /\ callArgs[NS("start", 2)].sample = <<UuidOf(2), UrlOf(2)>>
    /\ RunSamples = {1, 2}

\* ------------------------------------------------------------------ C13

\* the nodes that are given an id map
MapNodes == {n \in Nodes : FnOf(n) \notin {"batch_start", "download_url"}}

\* C13: a file name bound in a node's map is bound to the same file store ID
\* in the map of every node that node registers (and so all along the chain
\* of maps from parent to child or follow-on, the copy made in start
\* included): no node of a lineage rebinds a name.
C13_NoRebinding ==
    \A n \in MapNodes :
        Registered(n) /\ edge[n].parent \in MapNodes =>
            \A f \in DOMAIN ids[edge[n].parent] :
                /\ f \in DOMAIN ids[n]
                /\ ids[n][f] = ids[edge[n].parent][f]

\* the longest lineage: the Indel branch of a sample that had to be indexed
\* holds the bindings of the reference jobs, of start and of every stage
C13_Witness ==
    \E s \in Samples :
        LET n == NS("apply_vqsr_indel", s)
        IN  /\ Started(n)
            /\ Succeeded(NS("index", s))
            /\ ids[n][REF_FA] = ids[N0("create_reference_index_hc")][REF_FA]
            /\ ids[n][TOIL_BAM] = ids[NS("index", s)][TOIL_BAM]
            /\ ids[n][TOIL_BAI] = Handle(NS("index", s), TOIL_BAI)
            /\ ids[n][HAPINDEL_RECAL] = Handle(NS("vqsr_indel", s), HAPINDEL_RECAL)

\* ------------------------------------------------------------------ C14

\* the names of the reference files, bound before the samples are spawned
RefNames == {REF_FA, REF_FAI, REF_DICT} \cup Range(shared_file_names)

\* the nodes of sample s that are given an id map
SampleNodes(s) == {n \in MapNodes : SampleOf(n) = s /\ Registered(n)}

\* C14: sample isolation: in the map of a node of a sample, a reference name
\* is bound to the ID the reference jobs stored and any other name to an ID
\* written (or promised) by a node of that same sample; the IDs two samples
\* bind under a per-sample name differ; a file in the work dir of a node of a
\* sample is a reference file, a file downloaded from that sample's URL or a
\* file written by a tool of that sample; and the reference files stay as the
\* reference jobs stored them.
C14_SampleIsolation ==
    /\ \A s \in Samples : \A n \in SampleNodes(s) :
          /\ \A f \in DOMAIN ids[n] :
                IF f \in RefNames
                THEN ids[n][f] = ids[N0("spawn_batch_variant_calling")][f]
                ELSE SampleOf(ids[n][f].by) = s
          /\ \A f \in DOMAIN workDir[n] :
                LET c == workDir[n][f]
                IN  IF f \in RefNames
                    THEN c = store[ids[N0("spawn_batch_variant_calling")][f]]
                    ELSE IF c.origin = "tool" THEN SampleOf(c.by) = s
                    ELSE StartsWith(c.src, inputArgs[n].bam_url)
                         /\ inputArgs[n].bam_url = callArgs[NS("start", s)].sample[2]
    /\ \A s1, s2 \in Samples : s1 # s2 =>
          \A n1 \in SampleNodes(s1), n2 \in SampleNodes(s2) :
              \A f \in (DOMAIN ids[n1] \cap DOMAIN ids[n2]) \ RefNames :
                  ids[n1][f] # ids[n2][f]
    /\ \A h \in DOMAIN store : SampleOf(h.by) = 0 => store[h] = Original(h)

\* two samples are under way at the same time, each holding its own BAM
C14_Witness ==
    \E s1, s2 \in Samples :
        /\ s1 # s2
        /\ status[NS("haplotype_caller", s1)] = "succeeded"
        /\ status[NS("genotype_gvcf", s1)] = "running"
        /\ status[NS("haplotype_caller", s2)] = "succeeded"
        /\ TOIL_BAM \in DOMAIN workDir[NS("haplotype_caller", s1)]
        /\ TOIL_BAM \in DOMAIN workDir[NS("haplotype_caller", s2)]
        /\ workDir[NS("haplotype_caller", s1)][TOIL_BAM]
              # workDir[NS("haplotype_caller", s2)][TOIL_BAM]

\* ------------------------------------------------------------------ C15

\* a job function leaves the input_args it was given as it was
ConfigUntouched ==
    \A n \in Nodes : status[n] = "running" => inputArgs'[n] = inputArgs[n]

\* C15 as stated: no node changes any field of the configuration record it
\* was given.
C15_ConfigNeverMutated == [][ConfigUntouched]_vars

\* the fields set when the workflow starts: the parsed config file, manifest,
\* cpu_count and memory
ConfigFields == {"ref", "phase", "omni", "dbsnp", "hapmap", "mills", "indexed", "ssec",
                 "manifest", "cpu_count", "memory"}

\* a job function changes no field set at workflow start, and only
\* batch_start and start change a field at all: batch_start assigns sample,
\* output_dir and suffix, start assigns uuid and bam_url
ConfigFieldsUntouched ==
    \A n \in Nodes : status[n] = "running" =>
        /\ \A k \in ConfigFields : inputArgs'[n][k] = inputArgs[n][k]
        /\ FnOf(n) \notin {"batch_start", "start"} => inputArgs'[n] = inputArgs[n]
        /\ FnOf(n) = "batch_start" =>
              \A k \in {"uuid", "bam_url"} : inputArgs'[n][k] = inputArgs[n][k]
        /\ FnOf(n) = "start" =>
              \A k \in {"sample", "output_dir", "suffix"} : inputArgs'[n][k] = inputArgs[n][k]

\* C15 (amended): the fields of the configuration that are set at workflow
\* start are the same in the record of every job, all through the run;
\* batch_start assigns sample, output_dir and suffix and start assigns uuid
\* and bam_url on the record they were given; no other job changes a field.
C15_ConfigFieldsKept ==
    /\ [](\A n \in Nodes : Registered(n) =>
              \A k \in ConfigFields : inputArgs[n][k] = inputArgs[Root][k])
    /\ [][ConfigFieldsUntouched]_vars

\* the last stage of a sample ran on a record that batch_start and start had
\* written to
C15_Witness ==
    \E s \in Samples :
        LET n == NS("apply_vqsr_indel", s)
        IN  /\ Succeeded(n)
            /\ inputArgs[n].uuid = callArgs[NS("start", s)].sample[1]
            /\ inputArgs[n].suffix = callArgs[Root].suffix
            /\ inputArgs[n].uuid # Unset /\ inputArgs[n].output_dir # Unset

\* ------------------------------------------------------------------ C16

\* the job functions scheduled with cores = input_args.cpu_count
HintFns == {"haplotype_caller", "genotype_gvcf", "vqsr_snp", "vqsr_indel"}

RunningHinted == {n \in Nodes : status[n] = "running" /\ FnOf(n) \in HintFns}

\* C16: haplotype_caller, genotype_gvcf, vqsr_snp and vqsr_indel are
\* registered with a hint of cpu_count cores and no other job with a hint, and
\* the hints of the nodes that run at the same time never add up to more than
\* the budget of the engine (so a node whose hint does not fit is not started).
C16_ResourceHints ==
    /\ \A n \in Nodes : Registered(n) =>
          cores[n] = IF FnOf(n) \in HintFns THEN inputArgs[n].cpu_count ELSE 0
    /\ SumCores(RunningHinted) <= MaxCores
    /\ CoresInUse = SumCores(RunningHinted)

\* vqsr_snp runs and a worker is free, but vqsr_indel, which is ready, has to
\* wait for the cores
C16_Witness ==
    \E s \in Samples :
        /\ status[NS("vqsr_snp", s)] = "running"
        /\ status[NS("vqsr_indel", s)] = "created"
        /\ Ready(NS("vqsr_indel", s))
        /\ ~Halted
        /\ Cardinality({m \in Nodes : status[m] = "running"}) < MaxWorkers
        /\ CoresInUse + cores[NS("vqsr_indel", s)] > MaxCores

\* ------------------------------------------------------------------ C17

\* the config file is missing, or the manifest file is missing and no sample
\* was given on the command line
ConfigurationError ==
    \/ ~mainState.config_exists
    \/ ~mainState.manifest_exists /\ ~mainState.inline

\* C17: a configuration error is detected before any job is scheduled: the
\* program exits and no node of the workflow is ever created or started.
C17_ConfigErrorBeforeScheduling ==
    ConfigurationError =>
        /\ mainState.exit = "aborted"
        /\ \A n \in Nodes : status[n] = "absent"

\* the program exited on a missing manifest file
C17_Witness ==
    /\ mainState.config_exists /\ ~mainState.manifest_exists /\ ~mainState.inline
    /\ mainState.exit = "aborted"
    /\ status[Root] = "absent"

\* ------------------------------------------------------------------ C18

\* the queue is empty, or a node has failed and nothing runs any more
Drained ==
    \A n \in Nodes :
        \/ status[n] \in {"absent", "succeeded", "failed"}
        \/ Halted /\ status[n] = "created"

\* the number of samples of the run: the sample of the command line, or the
\* data lines of the manifest
NumSamples == IF mainState.inline THEN 1 ELSE Len(SelectSeq(manifestFile, IsDataLine))

\* when the run is over and no node failed, every sample has gone through
\* every stage and both sink calls were made
AllSamplesSunk ==
    mainState.exit = "started" /\ Quiescent /\ ~Halted =>
        /\ RunSamples = 1..NumSamples
        /\ \A s \in RunSamples :
              /\ SinkBy(NS("apply_vqsr_snp", s)) # {}
              /\ SinkBy(NS("apply_vqsr_indel", s)) # {}
              /\ \A n \in Nodes : SampleOf(n) = s => status[n] \in {"absent", "succeeded"}

\* C18: under fair scheduling the run terminates: from some point on the
\* queue is empty or a node has failed and no node runs; and when it ends
\* without a failure, every sample of the manifest has reached the sink call
\* of apply_vqsr_snp and that of apply_vqsr_indel.
C18_Terminates == <>[]Drained /\ []AllSamplesSunk

\* a run of several samples has ended with every sample through both branches
C18_Witness ==
    /\ mainState.exit = "started" /\ Quiescent /\ ~Halted
    /\ NumSamples = MaxSamples
    /\ \A s \in 1..MaxSamples :
          Succeeded(NS("apply_vqsr_snp", s)) /\ Succeeded(NS("apply_vqsr_indel", s))

\* ------------------------------------------------------------------ C19

\* C19: no partial result is promoted: a node whose tool invocation failed has
\* failed, has stored no file in the file store, has bound no ID of its own,
\* has made no sink call, has returned nothing and has registered no child or
\* follow-on (a map may still hold the promise of a failed download).
C19_NoPartialResults ==
    \A n \in toolFailed :
        /\ status[n] = "failed"
        /\ \A h \in DOMAIN store : h.by # n
        /\ \A m \in Nodes : \A f \in DOMAIN ids[m] : ids[m][f].promise \/ ids[m][f].by # n
        /\ SinkBy(n) = {}
        /\ rv[n] = NoneVal
        /\ \A m \in Nodes : Registered(m) => edge[m].parent # n

\* the tools of different stages have failed in some run: a recalibration, an
\* apply stage after its sibling branch made its sink call, and an indexing
C19_Witness ==
    \E n \in toolFailed :
        /\ FnOf(n) \in {"vqsr_snp", "apply_vqsr_indel", "index", "genotype_gvcf"}
        /\ \E h \in DOMAIN store : SampleOf(h.by) = SampleOf(n)
        /\ workDir[n] = EmptyMap

\* ------------------------------------------------------------------ C20

Descriptors ==
    IF mainState.inline THEN <<callArgs[Root].sample>> ELSE DataPairs(manifestFile)

StartNodes == {n \in Nodes : FnOf(n) = "start" /\ Registered(n)}

\* C21: spawn_batch_variant_calling registers exactly one start child per
\* sample descriptor: no start node exists before it has returned; once it has,
\* there are as many start nodes as descriptors, each a child of
\* spawn_batch_variant_calling with its own descriptor as sample argument; with
\* a sample on the command line that is one node, whatever the manifest file
\* holds and whether it exists or not.
C21_OneStartPerSample ==
    LET sp == N0("spawn_batch_variant_calling")
    IN  /\ ~Succeeded(sp) => StartNodes = {}
        /\ Succeeded(sp) =>
              /\ StartNodes = {NS("start", i) : i \in DOMAIN Descriptors}
              /\ Cardinality(StartNodes) = Len(Descriptors)
              /\ \A i \in DOMAIN Descriptors :
                    /\ edge[NS("start", i)] = [parent |-> sp, kind |-> "child"]
                    /\ callArgs[NS("start", i)].sample = Descriptors[i]
              /\ mainState.inline => Cardinality(StartNodes) = 1

\* a sample was given on the command line while the manifest file at the
\* default path lists several: one start job, for the sample given
C21_Witness ==
    /\ mainState.inline /\ mainState.manifest_exists
    /\ Len(DataPairs(manifestFile)) = MaxSamples
    /\ Succeeded(N0("spawn_batch_variant_calling"))
    /\ StartNodes = {NS("start", 1)}
    /\ Started(NS("start", 1))

\* ------------------------------------------------------------------ C22

\* the reference download, reference-index and reference-dictionary nodes
RefNodes == RefDownloads \cup {N0("create_reference_index_hc"), N0("create_reference_dict_hc")}

PerSampleNodes == {n \in Nodes : SampleOf(n) \in Samples}

\* the file a reference node stores
RefFileOf(n) ==
    CASE FnOf(n) = "create_reference_index_hc" -> REF_FAI
      [] FnOf(n) = "create_reference_dict_hc" -> REF_DICT
      [] OTHER -> n[3]

\* no per-sample node starts before every reference node has succeeded, and by
\* then each reference node has stored its one file
ReferenceFirst ==
    (\E n \in PerSampleNodes : Started(n)) =>
        /\ \A r \in RefNodes : Succeeded(r)
        /\ {h \in DOMAIN store : SampleOf(h.by) = 0} = {Handle(r, RefFileOf(r)) : r \in RefNodes}

\* the map start makes, as handed to the jobs start registers with a map,
\* binds the three reference files to what the reference nodes stored
StartMapsBindReference ==
    \A s \in Samples : \A n \in SuccessorsOf(NS("start", s)) \cap MapNodes :
        /\ {REF_FA, REF_FAI, REF_DICT} \subseteq DOMAIN ids[n]
        /\ ids[n][REF_FA] = Resolve(Promise(Node("download_url", 0, REF_FA)))
        /\ ids[n][REF_FAI] = Handle(N0("create_reference_index_hc"), REF_FAI)
        /\ ids[n][REF_DICT] = Handle(N0("create_reference_dict_hc"), REF_DICT)
        /\ \A f \in {REF_FA, REF_FAI, REF_DICT} : CanRead(store, ids[n][f])

\* a reference node is started once: it starts running only from "created",
\* and once it has run it never is created or running again
RefNodeRunsOnce ==
    \A r \in RefNodes :
        /\ status'[r] = "running" /\ status[r] # "running" => status[r] = "created"
        /\ status[r] \in {"running", "succeeded", "failed"} => status'[r] # "created"
        /\ status[r] \in {"succeeded", "failed"} => status'[r] = status[r]

\* C22: reference preparation precedes all per-sample work and happens once:
\* no per-sample node starts before the reference downloads, the reference
\* index and the reference dictionary have all succeeded; each of these nodes
\* runs once, however many samples there are; and every map made in start
\* already binds ref.fa, ref.fa.fai and ref.dict.
C22_ReferenceFirstAndOnce ==
    /\ [](ReferenceFirst /\ StartMapsBindReference)
    /\ [][RefNodeRunsOnce]_vars

\* the samples of a run of several are under way on the one set of reference files
C22_Witness ==
    /\ Cardinality(RunSamples) = MaxSamples
    /\ \A s \in RunSamples :
          /\ Started(NS("haplotype_caller", s))
          /\ ids[NS("haplotype_caller", s)][REF_DICT] = Handle(N0("create_reference_dict_hc"), REF_DICT)
    /\ Cardinality({h \in DOMAIN store : SampleOf(h.by) = 0}) = Cardinality(RefNodes)

\* ------------------------------------------------------------------ C23

\* every name node n hydrates is bound in its map to an ID the store holds
HydratesBound(n) ==
    \A f \in Range(InputFilesOf(n)) : f \in DOMAIN ids[n] /\ CanRead(store, ids[n][f])

\* C23: for every configuration (indexed or not, ssec set or unset), whenever
\* a node hydrates a file name from its map, that name is bound in the map, to
\* an ID the store holds: the staging of a running node raises no error, and
\* haplotype_caller finds toil.bam and toil.bam.bai bound.
C23_HydratedNamesBound ==
    \A n \in Nodes : status[n] = "running" =>
        /\ HydratesBound(n)
        /\ ~read_from_filestore_hc(store, workDir[n], ids[n], InputFilesOf(n)).err

\* the same, for the runs without an encryption key
C23_BoundWithoutKey ==
    \A n \in Nodes : status[n] = "running" /\ inputArgs[n].ssec = NoneStr =>
        /\ HydratesBound(n)
        /\ ~read_from_filestore_hc(store, workDir[n], ids[n], InputFilesOf(n)).err

\* with an encryption key the first job that stages toil.bam raises
C23_KeyRunFails ==
    \A s \in Samples :
        LET n == IF inputArgs[Root].indexed THEN NS("haplotype_caller", s) ELSE NS("index", s)
        IN  inputArgs[Root].ssec # NoneStr /\ Started(n) =>
                /\ TOIL_BAM \notin DOMAIN ids[n]
                /\ status[n] \in {"running", "failed"}
                /\ ~Registered(BamDownload(s))

\* ------------------------------------------------------------------ C24

\* the gVCF haplotype_caller of sample s stored
GvcfsOf(s) == {h.name : h \in {x \in DOMAIN store : x.by = NS("haplotype_caller", s)}}

\* C24: for every sample identifier and every suffix, the file name
\* genotype_gvcf gives its tool as --variant is the name of the gVCF that
\* haplotype_caller produced and that genotype_gvcf hydrates.
C24_VariantIsTheGvcf ==
    \A s \in Samples :
        LET n == NS("genotype_gvcf", s)
        IN  Started(n) =>
              /\ genotype_gvcf_variant(inputArgs[n]) = InputFilesOf(n)[1]
              /\ genotype_gvcf_variant(inputArgs[n]) \in GvcfsOf(s)

\* the two names are the same when the suffix is '.gatk', and only then; the
\* name that is hydrated is always the one haplotype_caller produced
C24_SameForGatkSuffixOnly ==
    \A s \in Samples :
        LET n == NS("genotype_gvcf", s)
        IN  Started(n) =>
              /\ GvcfsOf(s) = {InputFilesOf(n)[1]}
              /\ genotype_gvcf_variant(inputArgs[n]) \in GvcfsOf(s)
                    <=> inputArgs[n].suffix = <<".gatk">>

\* ------------------------------------------------------------------ C25

\* the identifier and the URL of the descriptor sample s was started with
OwnUuid(s) == callArgs[NS("start", s)].sample[1]
OwnUrl(s) == callArgs[NS("start", s)].sample[2]

\* the output name of a stage of sample s, made with the sample's identifier
OwnOutputName(n) ==
    LET u == OwnUuid(SampleOf(n))
        x == callArgs[Root].suffix
    IN  CASE FnOf(n) = "haplotype_caller" -> GvcfName(u, x)
          [] FnOf(n) = "apply_vqsr_snp" -> SnpVcfName(u, x)
          [] FnOf(n) = "apply_vqsr_indel" -> IndelVcfName(u, x)
          [] OTHER -> <<>>

\* C25: whatever the interleaving of the nodes of several samples, every node
\* below start in a sample's sub-graph reads its own sample's identifier and
\* BAM URL from its configuration record, haplotype_caller, apply_vqsr_snp and
\* apply_vqsr_indel name their output with it (and genotype_gvcf hydrates the
\* gVCF of that name), and no output of a sample is named with the identifier
\* of another sample.
C25_OwnSampleIdentifier ==
    \A s \in RunSamples :
        /\ \A n \in SampleNodes(s) \ {NS("start", s)} :
              inputArgs[n].uuid = OwnUuid(s) /\ inputArgs[n].bam_url = OwnUrl(s)
        /\ Succeeded(NS("start", s)) => inputArgs[NS("start", s)].uuid = OwnUuid(s)
        /\ \A c \in SinksOf(s) : c.name = OwnOutputName(c.node)
        /\ GvcfsOf(s) \subseteq {OwnOutputName(NS("haplotype_caller", s))}
        /\ Started(NS("genotype_gvcf", s)) =>
              InputFilesOf(NS("genotype_gvcf", s))[1] = OwnOutputName(NS("haplotype_caller", s))
        /\ \A t \in RunSamples \ {s} :
              /\ OwnUuid(t) # OwnUuid(s)
              /\ \A c \in SinksOf(s) : ~StartsWith(c.name, OwnUuid(t))
              /\ \A g \in GvcfsOf(s) : ~StartsWith(g, OwnUuid(t))

\* every sample of a run of several has handed its gVCF and its Indel VCF to
\* the sink, each start job having written its identifier before
C25_Witness ==
    /\ Cardinality(RunSamples) = MaxSamples
    /\ \A s \in RunSamples :
          /\ SinkBy(NS("haplotype_caller", s)) # {}
          /\ SinkBy(NS("apply_vqsr_indel", s)) # {}
          /\ inputArgs[NS("start", s)].uuid = UuidOf(s)

====
